---- MODULE Spec2Model ----
(***************************************************************************)
(* WordPress -> Directus migration engine (migration_gui/migration_script  *)
(* .js) and the rollback endpoint of the GUI server (migration_gui/        *)
(* server.js): the tracking store, the media importer, the entity          *)
(* migrators, batch completion and batch rollback.                         *)
(*                                                                         *)
(* Ten specifications are defined:                                         *)
(*   Spec       one migration worker at a time (CLI / spawned child),      *)
(*              killable between any two awaited steps, interleaved with   *)
(*              rollback requests (CLI rollbackBatch or the API handler),  *)
(*              each request taken as one step;                            *)
(*   StoreSpec  the tracking store API driven by arbitrary callers, for    *)
(*              the claims about trackMigration / isAlreadyMigrated /      *)
(*              getMigratedId on arbitrary store contents;                 *)
(*   CsvSpec    one call of readWpPostsCSV on a file, one step per         *)
(*              physical line, for the claims about the reader;            *)
(*   HtmlSpec   the content functions (extractMediaUrls,                   *)
(*              convertHtmlToTipTapJson, parseInlineContent,               *)
(*              replaceUrlsInTipTapJson) applied to one input;             *)
(*   ServerSpec the GUI server and its migration child processes;          *)
(*   SeededSpec the commands of Spec against a target database that        *)
(*              already holds rows with the ids of the export;             *)
(*   LiveSpec   Spec with weak fairness on the steps of a live migration   *)
(*              process, for the progress of a batch;                      *)
(*   LoopSpec   one call of migrateWpPosts, migrateTagTranslations or      *)
(*              importMediaUrl from its first statement to its return,     *)
(*              with counters and progress lines;                          *)
(*   RollbackSpec  rollback requests against the stores earlier runs left; *)
(*   CleanSpec  the clean command among rollback requests.                 *)
(***************************************************************************)
EXTENDS Integers, Sequences, FiniteSets, TLC

VARIABLES
    db,               \* target Directus database: one set of rows per table
    dbSeq,            \* SERIAL sequences of the target tables with generated ids
    directus_files,   \* files held by Directus (/files/import results)
    migration_batch,  \* tracking table migration_batch
    migration_data,   \* tracking table migration_data
    proc,             \* the migration process: position in runMigration
    urlToUuidCache,   \* in-memory Map url -> uuid of the migration process
    rejects,          \* rows the target database refuses (constraint violation)
    ret,              \* what the operation that has just returned did and returned
    hist,             \* history of the run, for stating the properties
    reader,           \* one call of readWpPostsCSV: its file, locals and yields
    conv,             \* one call of a content conversion function: input, result
    server            \* GUI server: migrationProcess, isRunning, its children

vars == <<db, dbSeq, directus_files, migration_batch, migration_data,
          proc, urlToUuidCache, rejects, ret, hist, reader, conv, server>>

(***************************************************************************)
(* Bounds                                                                  *)
(***************************************************************************)
MaxCommands == 3     \* Spec: migrate, stop and rollback commands issued
MaxBatches == 2      \* StoreSpec: rows of migration_batch
MaxStoreRows == 2    \* StoreSpec: rows inserted into migration_data
MaxRecords == 2      \* CsvSpec: records of the file readWpPostsCSV reads
MaxLimit == 2        \* CsvSpec: largest value of the option limit
MaxItems == 2        \* HtmlSpec: pieces a content string is made of
MaxChildren == 4     \* ServerSpec: child processes the server spawns

NULL == "null"
NaN == -1            \* parseInt of a non-numeric string

(***************************************************************************)
(* Source data files read by the migrators                                 *)
(***************************************************************************)
URL1 == "https://www.btaskee.com/wp-content/uploads/a.png"

\* data/directus_tags.json
TagsFile == << [tag_id |-> 1] >>

\* data/category.json (name -> {id, priority})
CategoryFile == << [name |-> "tips", id |-> 1] >>

\* data/post_category.json
PostCategoryFile == << [post_name |-> "p1", category_id |-> 1] >>

\* data/wp/wp_posts.csv, published posts in file order; media = the URLs
\* extractMediaUrls finds in post_content (a Set, so without repetition)
WpPosts == << [ID |-> "1", post_name |-> "p1", media |-> <<URL1>>],
              [ID |-> "2", post_name |-> "p2", media |-> <<URL1>>] >>

\* data/post_tags.json
PostTagsFile == << [post_id |-> 1, tag_id |-> 1] >>

Urls == {URL1}
PostIds == {WpPosts[i].ID : i \in 1..Len(WpPosts)}

(***************************************************************************)
(* JavaScript conversions                                                  *)
(***************************************************************************)
Digits == <<"1", "2", "3", "4", "5", "6", "7", "8", "9">>

\* String(n) for a small non-negative number
String(n) == IF n = 0 THEN "0" ELSE Digits[n]

\* parseInt(s): the number a decimal string denotes, NaN otherwise
parseInt(s) ==
    IF s = "0" THEN 0
    ELSE IF \E n \in 1..Len(Digits) : Digits[n] = s
         THEN CHOOSE n \in 1..Len(Digits) : Digits[n] = s
         ELSE NaN

\* `${tag.tag_id}_vi-VN`
TagTranslationOldId(tagId) == <<"1_vi-VN", "2_vi-VN">>[tagId]

\* `${data.id}_${langCode}_${name}`
CollectionTranslationOldId(c) == <<"1_en-VN_tips", "2_en-VN_tips">>[c.id]

\* `${pt.post_id}_${pt.tag_id}`
PostTagOldId(pt) == << <<"1_1", "1_2">>, <<"2_1", "2_2">> >>[pt.post_id][pt.tag_id]

\* uuid generated by Directus for the n-th imported file
Uuid(n) == <<"f1", "f2", "f3", "f4", "f5", "f6", "f7", "f8", "f9">>[n]

\* trackMigration's  newId ? String(newId) : null
NewIdOfNumber(n) == IF n # 0 THEN String(n) ELSE NULL
\* a variant that stores no id
NewIdOfStringNull(s) == NULL

\* trackMigration's  newId ? String(newId) : null, for an id that is a string
NewIdOfString(s) == IF s # NULL /\ s # "" THEN s ELSE NULL

(***************************************************************************)
(* Migration tracking store                                                *)
(***************************************************************************)
\* next value of the SERIAL id / created_at clock of migration_data
NextDataId(md) == IF md = {} THEN 1
                  ELSE 1 + CHOOSE m \in {r.id : r \in md} :
                                \A r \in md : r.id <= m

\* INSERT INTO migration_batch ... RETURNING id   (status DEFAULT 'running')
createBatch(mb) ==
    mb \cup {[id |-> Cardinality(mb) + 1, status |-> "running",
              error_message |-> NULL]}

\* UPDATE migration_batch SET status, error_message WHERE id
completeBatchDropsMessage(mb, batchId, status, errorMessage) ==
    {IF b.id = batchId
     THEN [b EXCEPT !.status = status, !.error_message = NULL]
     ELSE b : b \in mb}

completeBatch(mb, batchId, status, errorMessage) ==
    {IF b.id = batchId
     THEN [b EXCEPT !.status = status, !.error_message = errorMessage]
     ELSE b : b \in mb}

\* the rows the unique constraint (table_name, old_id, batch_id) conflicts with
ConflictRows(md, batchId, tableName, oldId) ==
    {r \in md : r.table_name = tableName /\ r.old_id = oldId
                /\ r.batch_id = batchId}

\* plain INSERT, without the ON CONFLICT clause
trackMigrationNoConflictClause(md, batchId, tableName, oldId, newId, status, errorMessage) ==
    md \cup {[id |-> NextDataId(md), batch_id |-> batchId,
              table_name |-> tableName, old_id |-> oldId, new_id |-> newId,
              status |-> status, error_message |-> errorMessage,
              created_at |-> NextDataId(md)]}

\* INSERT ... ON CONFLICT (table_name, old_id, batch_id) DO UPDATE SET
\*   new_id, status, error_message   (created_at is left alone)
trackMigration(md, batchId, tableName, oldId, newId, status, errorMessage) ==
    IF ConflictRows(md, batchId, tableName, oldId) = {}
    THEN md \cup {[id |-> NextDataId(md), batch_id |-> batchId,
                   table_name |-> tableName, old_id |-> oldId, new_id |-> newId,
                   status |-> status, error_message |-> errorMessage,
                   created_at |-> NextDataId(md)]}
    ELSE {IF r \in ConflictRows(md, batchId, tableName, oldId)
          THEN [r EXCEPT !.new_id = newId, !.status = status,
                         !.error_message = errorMessage]
          ELSE r : r \in md}

\* the same filter with the status literal of a batch, which no record has
SuccessRowsWrongStatus(md, tableName, oldId) ==
    {r \in md : r.table_name = tableName /\ r.old_id = oldId
                /\ r.status = "completed"}

\* WHERE table_name = $1 AND old_id = $2 AND status = 'success'
SuccessRows(md, tableName, oldId) ==
    {r \in md : r.table_name = tableName /\ r.old_id = oldId
                /\ r.status = "success"}

\* the same query without the status filter
isAlreadyMigratedAnyStatus(md, tableName, oldId) ==
    {r \in md : r.table_name = tableName /\ r.old_id = oldId} # {}

\* SELECT 1 ... LIMIT 1;  result.rows.length > 0
isAlreadyMigrated(md, tableName, oldId) ==
    Cardinality(SuccessRows(md, tableName, oldId)) > 0

\* the same query ordered by created_at ASC
getMigratedIdOldest(md, tableName, oldId) ==
    IF SuccessRows(md, tableName, oldId) = {} THEN NULL
    ELSE NewIdOfString(
           (CHOOSE r \in SuccessRows(md, tableName, oldId) :
              \A q \in SuccessRows(md, tableName, oldId) :
                  r.created_at <= q.created_at).new_id)

\* SELECT new_id ... ORDER BY created_at DESC LIMIT 1;
\* result.rows[0]?.new_id || null
getMigratedId(md, tableName, oldId) ==
    IF SuccessRows(md, tableName, oldId) = {} THEN NULL
    ELSE NewIdOfString(
           (CHOOSE r \in SuccessRows(md, tableName, oldId) :
              \A q \in SuccessRows(md, tableName, oldId) :
                  q.created_at <= r.created_at).new_id)

(***************************************************************************)
(* Initial state: empty target tables, empty tracking store, no process    *)
(***************************************************************************)
Tables == {"post_translations", "post_tag", "post", "tag_translations", "tag",
           "collection_translations", "collection"}

NoRet == [op |-> "none"]

ProcIdle == [pc |-> "idle", batchId |-> 0, idx |-> 0, step |-> "none",
             mIdx |-> 0, thumbnailUuid |-> NULL, templates |-> TRUE,
             error |-> NULL, effects |-> {}, finished |-> <<>>,
             hadRows |-> FALSE]

\* rows whose insert violates a constraint of the target database
RejectChoices ==
    { {}, {<<"tag", 1>>, <<"collection", 1>>, <<"post_translations", 1>>} }

HistInit ==
    [ lastWrite       |-> {},   \* last trackMigration arguments per key
      prevStatus      |-> [p \in PostIds |-> "none"],
                                \* status of the latest migrateSingleWpPost
                                \* return per post, forgotten on a rollback
      importLog       |-> [u \in Urls |-> <<>>],
                                \* outcomes of the importFileToDirectus calls
                                \* of the current process, per url
      importedInBatch |-> [u \in Urls |-> 0],
                                \* batch of the first tracked successful import
      rolledSince     |-> {},   \* posts whose rows a rollback deleted after
                                \* the migrator last inserted them
      nCommands       |-> 0 ]   \* migrate, stop and rollback commands so far

\* no call of readWpPostsCSV is under way
ReaderOff == [pc |-> "off"]

\* no content conversion is under way
ConvOff == [op |-> "off"]

\* the GUI server is not part of the run
ServerOff == [pc |-> "off"]

\* empty stores, no process
InitStores ==
    /\ db = [t \in Tables |-> {}]
    /\ dbSeq = [t \in {"tag_translations", "collection_translations", "post_tag"} |-> 0]
    /\ directus_files = {}
    /\ migration_batch = {}
    /\ migration_data = {}
    /\ proc = ProcIdle
    /\ urlToUuidCache = [u \in Urls |-> NULL]
    /\ ret = NoRet
    /\ hist = HistInit

Init ==
    /\ InitStores
    /\ rejects \in RejectChoices
    /\ reader = ReaderOff
    /\ conv = ConvOff
    /\ server = ServerOff

(***************************************************************************)
(* CsvSpec: readWpPostsCSV reading one file, one action per physical line  *)
(***************************************************************************)
\* a string is a sequence of characters; a word without comma, quote or
\* line break ("post", "publish") counts as one character
Comma == ","
Quote == "\""
Newline == "\n"

RECURSIVE ParseFrom(_, _, _, _, _)
\* the for loop of parseCSVLine from position i on
ParseFrom(line, i, current, inQuotes, result) ==
    IF i > Len(line) THEN Append(result, current)
    ELSE IF inQuotes
    THEN IF line[i] = Quote /\ i < Len(line) /\ line[i + 1] = Quote
         THEN ParseFrom(line, i + 2, Append(current, Quote), TRUE, result)
         ELSE IF line[i] = Quote
         THEN ParseFrom(line, i + 1, current, FALSE, result)
         ELSE ParseFrom(line, i + 1, Append(current, line[i]), TRUE, result)
    ELSE IF line[i] = Quote
         THEN ParseFrom(line, i + 1, current, TRUE, result)
         ELSE IF line[i] = Comma
         THEN ParseFrom(line, i + 1, <<>>, FALSE, Append(result, current))
         ELSE ParseFrom(line, i + 1, Append(current, line[i]), FALSE, result)

parseCSVLine(line) == ParseFrom(line, 1, <<>>, FALSE, <<>>)

\* (currentField.match(/"/g) || []).length
QuoteCount(text) == Cardinality({i \in 1..Len(text) : text[i] = Quote})

\* the file: a field holding a comma, a quote or a line break is written
\* between quotes with its quotes doubled, fields are joined by commas,
\* every record ends with a line break
NeedsQuotes(field) ==
    \E i \in 1..Len(field) : field[i] \in {Comma, Quote, Newline}

RECURSIVE DoubleQuotes(_)
DoubleQuotes(field) ==
    IF field = <<>> THEN <<>>
    ELSE (IF Head(field) = Quote THEN <<Quote, Quote>> ELSE <<Head(field)>>)
         \o DoubleQuotes(Tail(field))

EncodeField(field) ==
    IF NeedsQuotes(field) THEN <<Quote>> \o DoubleQuotes(field) \o <<Quote>>
    ELSE field

RECURSIVE EncodeRecord(_)
EncodeRecord(values) ==
    IF Len(values) = 1 THEN EncodeField(values[1])
    ELSE EncodeField(values[1]) \o <<Comma>> \o EncodeRecord(Tail(values))

RECURSIVE FileText(_, _)
FileText(header, records) ==
    IF records = <<>>
    THEN EncodeRecord([i \in 1..Len(header) |-> <<header[i]>>]) \o <<Newline>>
    ELSE FileText(header, SubSeq(records, 1, Len(records) - 1))
         \o EncodeRecord([i \in 1..Len(header) |->
                              records[Len(records)][header[i]]])
         \o <<Newline>>

RECURSIVE SplitLines(_, _)
\* readline: the physical lines of the text (current: the line being read)
SplitLines(text, current) ==
    IF text = <<>> THEN (IF current = <<>> THEN <<>> ELSE <<current>>)
    ELSE IF Head(text) = Newline
    THEN <<current>> \o SplitLines(Tail(text), <<>>)
    ELSE SplitLines(Tail(text), Append(current, Head(text)))

\* column orders of the header row
HeaderChoices == { <<"post_content", "post_type", "post_status">>,
                   <<"post_type", "post_status", "post_content">> }

\* the records a file may hold
RecordChoices ==
    [post_type : {<<"post">>, <<"page">>},
     post_status : {<<"publish">>, <<"draft">>},
     post_content : {<<"a">>, <<"a", Newline, "b">>,
                     <<"a", Comma, Quote, "b">>}]

FileChoices == UNION {[1..n -> RecordChoices] : n \in 0..MaxRecords}

\* const { postType = 'post', postStatus = null, limit = 0 } = options
\* (postStatus <<>>: null, no filter on the status)
OptionChoices ==
    [postType : {<<"post">>}, postStatus : {<<>>, <<"publish">>},
     limit : 0..MaxLimit]

\* the state of readWpPostsCSV before its first line
ReaderStart(header, records, options) ==
    [pc |-> "reading",
     lines |-> SplitLines(FileText(header, records), <<>>), next |-> 1,
     headers |-> <<>>, currentRecord |-> FALSE, currentField |-> <<>>,
     count |-> 0, yielded |-> <<>>, closed |-> FALSE,
     options |-> options, records |-> records, malformedAt |-> 0]

RECURSIVE RecordsText(_, _)
\* the lines of the records alone, without the header row
RecordsText(header, records) ==
    IF records = <<>> THEN <<>>
    ELSE EncodeRecord([i \in 1..Len(header) |-> records[1][header[i]]])
         \o <<Newline>> \o RecordsText(header, Tail(records))

\* rows whose column count differs from the three columns of the header
MalformedRows == { <<"x", Comma, "y">>,
                   <<"x", Comma, "y", Comma, "z", Comma, "w">> }

\* the same call on the file with a malformed row before its at-th record
\* (after the last record when at = Len(records) + 1)
ReaderStartMalformed(header, records, options, row, at) ==
    [ReaderStart(header, records, options) EXCEPT
       !.lines = SplitLines(
                    FileText(header, SubSeq(records, 1, at - 1))
                    \o row \o <<Newline>>
                    \o RecordsText(header, SubSeq(records, at, Len(records))),
                    <<>>),
       !.malformedAt = at]

\* headers.forEach((h, i) => record[h] = values[i])
MakeRecord(headers, values) ==
    [h \in {headers[i][1] : i \in 1..Len(headers)} |->
        values[CHOOSE i \in 1..Len(headers) :
                   /\ headers[i][1] = h
                   /\ \A j \in 1..Len(headers) : headers[j][1] = h => j <= i]]

\* the filter of readWpPostsCSV
MatchesFilter(record, options) ==
    /\ record.post_type = options.postType
    /\ options.postStatus = <<>> \/ record.post_status = options.postStatus

\* values.length === headers.length: build the record, filter, count,
\* yield, and close and return once the limit is reached
Emit(r, values) ==
    IF Len(values) # Len(r.headers) THEN r
    ELSE IF ~MatchesFilter(MakeRecord(r.headers, values), r.options) THEN r
    ELSE [r EXCEPT
            !.count = @ + 1,
            !.yielded = IF r.options.limit = 0 \/ r.count + 1 <= r.options.limit
                        THEN Append(@, MakeRecord(r.headers, values)) ELSE @,
            !.closed = r.options.limit > 0 /\ r.count + 1 >= r.options.limit,
            !.pc = IF r.options.limit > 0 /\ r.count + 1 >= r.options.limit
                   THEN "done" ELSE @]

programVars == <<db, dbSeq, directus_files, migration_batch, migration_data,
                 proc, urlToUuidCache, rejects, ret, hist>>

\* if (!headers) { headers = parseCSVLine(line); continue; }
ReadHeaderLine ==
    /\ reader.pc = "reading" /\ reader.next <= Len(reader.lines)
    /\ reader.headers = <<>>
    /\ reader' = [reader EXCEPT !.headers = parseCSVLine(reader.lines[reader.next]),
                                !.next = @ + 1]
    /\ UNCHANGED <<programVars, conv, server>>

\* if (currentRecord) { currentField += '\n' + line; ... continue; }
ReadContinuationLine ==
    /\ reader.pc = "reading" /\ reader.next <= Len(reader.lines)
    /\ reader.headers # <<>>
    /\ reader.currentRecord
    /\ LET currentField == reader.currentField \o <<Newline>>
                              \o reader.lines[reader.next]
           r == [reader EXCEPT !.next = @ + 1]
       IN IF QuoteCount(currentField) % 2 = 0
          THEN LET e == Emit(r, parseCSVLine(currentField))
               IN reader' = IF e.pc = "done"
                            THEN [e EXCEPT !.currentField = currentField]
                            ELSE [e EXCEPT !.currentRecord = FALSE,
                                           !.currentField = <<>>]
          ELSE reader' = [r EXCEPT !.currentField = currentField]
    /\ UNCHANGED <<programVars, conv, server>>

\* const values = parseCSVLine(line): a complete record, or the start of a
\* record that goes on in the next lines
ReadRecordLine ==
    /\ reader.pc = "reading" /\ reader.next <= Len(reader.lines)
    /\ reader.headers # <<>>
    /\ ~reader.currentRecord
    /\ LET line == reader.lines[reader.next]
           values == parseCSVLine(line)
           r == [reader EXCEPT !.next = @ + 1]
       IN reader' = IF Len(values) = Len(reader.headers) THEN Emit(r, values)
                    ELSE IF Len(values) < Len(reader.headers)
                    THEN [r EXCEPT !.currentRecord = TRUE,
                                   !.currentField = line]
                    ELSE r
    /\ UNCHANGED <<programVars, conv, server>>

\* the for await loop ends with the last line
ReaderEnd ==
    /\ reader.pc = "reading" /\ reader.next > Len(reader.lines)
    /\ reader' = [reader EXCEPT !.pc = "done"]
    /\ UNCHANGED <<programVars, conv, server>>

CsvNext ==
    \/ ReadHeaderLine
    \/ ReadContinuationLine
    \/ ReadRecordLine
    \/ ReaderEnd

CsvInit ==
    /\ InitStores
    /\ rejects = {}
    /\ conv = ConvOff
    /\ server = ServerOff
    /\ reader \in
         {ReaderStart(header, records, options) :
             header \in HeaderChoices, records \in FileChoices,
             options \in OptionChoices}
         \cup UNION {{ReaderStartMalformed(header, records, options, row, at) :
                         at \in 1..(Len(records) + 1)} :
                     header \in HeaderChoices, records \in FileChoices,
                     options \in OptionChoices, row \in MalformedRows}

CsvSpec == CsvInit /\ [][CsvNext]_vars

(***************************************************************************)
(* HtmlSpec: the content functions of migration_script.js applied to one   *)
(* content string. A string is a sequence of lexemes: a character, a tag,  *)
(* a shortcode bracket or a block-editor comment, each taken as a whole.   *)
(***************************************************************************)
Ch(c) == [k |-> "char", v |-> c]            \* one character of text
Open(tag) == [k |-> "open", v |-> tag]      \* <tag ...>
Close(tag) == [k |-> "close", v |-> tag]    \* </tag>
Img(src) == [k |-> "img", v |-> src]        \* <img src="...">
Void(tag) == [k |-> "void", v |-> tag]      \* <br> or <hr>
CaptionOpen == [k |-> "shortcode", v |-> "[caption id=x]"]
CaptionClose == [k |-> "shortcode", v |-> "[/caption]"]
WpComment == [k |-> "comment", v |-> "<!-- wp:paragraph -->"]

\* [^<]: a lexeme that is text for the regular expressions
IsText(tok) == tok.k \in {"char", "shortcode"}
\* \s
IsSpace(tok) == tok.k = "char" /\ tok.v \in {" ", "\n"}

Least(S) == CHOOSE i \in S : \A j \in S : i <= j

\* String.prototype.trim
trim(s) ==
    LET keep == {i \in 1..Len(s) : ~IsSpace(s[i])}
    IN IF keep = {} THEN <<>>
       ELSE SubSeq(s, Least(keep), CHOOSE i \in keep : \A j \in keep : j <= i)

\* html.replace(/<[^>]+>/g, '')
StripTags(s) ==
    LET Test(tok) == IsText(tok) IN SelectSeq(s, Test)

\* the characters of a text
TextOf(s) == [i \in 1..Len(s) |-> s[i].v]

\* index of the first </tag> at or after from (0: none)
NextClose(s, from, tag) ==
    LET S == {j \in from..Len(s) : s[j] = Close(tag)}
    IN IF S = {} THEN 0 ELSE Least(S)

\* the inline tags of parseWithMarks and the mark each one adds
InlineTags == {"strong", "b", "em", "i", "cite", "u", "s", "sup", "sub", "code"}
MarkOf(tag) ==
    CASE tag \in {"strong", "b"} -> "bold"
      [] tag \in {"em", "i", "cite"} -> "italic"
      [] tag = "u" -> "underline"
      [] tag = "s" -> "strike"
      [] tag = "sup" -> "superscript"
      [] tag = "sub" -> "subscript"
      [] tag = "code" -> "code"

\* end of the run of text lexemes that starts at i
TextRunEnd(s, i) ==
    LET S == {j \in i..Len(s) : ~IsText(s[j])}
    IN IF S = {} THEN Len(s) ELSE Least(S) - 1

RECURSIVE parseWithMarks(_, _, _)
\* parseWithMarks(htmlStr, inheritedMarks) from position i on: the text
\* nodes it pushes to content, in order
parseWithMarks(s, i, marks) ==
    IF i > Len(s) THEN <<>>
    ELSE IF /\ s[i].k = "open" /\ s[i].v \in InlineTags
            /\ NextClose(s, i + 1, s[i].v) # 0
    THEN LET j == NextClose(s, i + 1, s[i].v)
         IN parseWithMarks(SubSeq(s, i + 1, j - 1), 1,
                           Append(marks, MarkOf(s[i].v)))
            \o parseWithMarks(s, j + 1, marks)
    ELSE IF IsText(s[i])
    THEN <<[text |-> TextOf(SubSeq(s, i, TextRunEnd(s, i))), marks |-> marks]>>
         \o parseWithMarks(s, TextRunEnd(s, i) + 1, marks)
    ELSE parseWithMarks(s, i + 1, marks)

RECURSIVE MergeRuns(_, _)
\* the clean-up loop of parseInlineContent: drop a node without text, merge
\* a node into the previous one when JSON.stringify of their marks is equal
MergeRuns(content, cleaned) ==
    IF content = <<>> THEN cleaned
    ELSE LET node == Head(content)
         IN IF node.text = <<>> THEN MergeRuns(Tail(content), cleaned)
            ELSE IF cleaned # <<>> /\ cleaned[Len(cleaned)].marks = node.marks
            THEN MergeRuns(Tail(content),
                    [cleaned EXCEPT ![Len(cleaned)].text = @ \o node.text])
            ELSE MergeRuns(Tail(content), Append(cleaned, node))

\* html.replace(/<br\s*\/?>/gi, '\n')
BrToNewline(s) ==
    [i \in 1..Len(s) |-> IF s[i] = Void("br") THEN Ch("\n") ELSE s[i]]

parseInlineContent(html) ==
    IF html = <<>> THEN <<>>
    ELSE MergeRuns(parseWithMarks(BrToNewline(html), 1, <<>>), <<>>)

\* index of the first <img> of s at or after from (0: none)
NextImg(s, from) ==
    LET S == {j \in from..Len(s) : s[j].k = "img"}
    IN IF S = {} THEN 0 ELSE Least(S)

\* s without its i-th lexeme
RemoveAt(s, i) == SubSeq(s, 1, i - 1) \o SubSeq(s, i + 1, Len(s))

\* index of the first [caption ...] at or after from that a [/caption]
\* follows (0: none)
NextCaption(s, from) ==
    LET S == {i \in from..Len(s) :
                 /\ s[i] = CaptionOpen
                 /\ \E j \in (i + 1)..Len(s) : s[j] = CaptionClose}
    IN IF S = {} THEN 0 ELSE Least(S)

RECURSIVE ReplaceCaptions(_, _)
\* processed.replace(/\[caption[^\]]*\]([\s\S]*?)\[\/caption\]/gi, ...)
ReplaceCaptions(s, from) ==
    IF NextCaption(s, from) = 0 THEN SubSeq(s, from, Len(s))
    ELSE LET i == NextCaption(s, from)
             j == Least({n \in (i + 1)..Len(s) : s[n] = CaptionClose})
             inner == SubSeq(s, i + 1, j - 1)
             img == NextImg(inner, 1)
         IN SubSeq(s, from, i - 1)
            \o (IF img = 0 THEN SubSeq(s, i, j)
                ELSE <<Open("figure"), inner[img], Open("figcaption")>>
                     \o trim(RemoveAt(inner, img))
                     \o <<Close("figcaption"), Close("figure")>>)
            \o ReplaceCaptions(s, j + 1)

\* .replace(/<!--\s*wp:[^>]*-->/g, '').replace(/<!--\s*\/wp:[^>]*-->/g, '')
RemoveWpComments(s) ==
    LET Test(tok) == tok # WpComment IN SelectSeq(s, Test)

preprocessWordPressContent(html) ==
    IF html = <<>> THEN html
    ELSE trim(RemoveWpComments(ReplaceCaptions(html, 1)))

\* createImageNode(src, alt, caption, ...): subCaption <<>> stands for a
\* null or empty caption, withCaption is !!caption
createImageNode(src, caption) ==
    [type |-> "image", src |-> src, subCaption |-> caption,
     withCaption |-> caption # <<>>]

createImageNodeFromImg(imgTag) == createImageNode(imgTag.v, <<>>)

createParagraphNode(html) ==
    [type |-> "paragraph", content |-> parseInlineContent(html)]

createHeadingNode(html, level) ==
    [type |-> "heading", level |-> level, content |-> parseInlineContent(html)]

createBlockquoteNode(html) ==
    [type |-> "blockquote",
     content |-> <<[type |-> "paragraph",
                    content |-> parseInlineContent(html)]>>]

\* the figure has no image: createImageNodeFromFigure returns null
NoNode == [type |-> "null"]

\* createImageNodeFromFigure that does not read the <figcaption>
createImageNodeFromFigureNoCaption(html) ==
    IF NextImg(html, 1) = 0 THEN NoNode
    ELSE createImageNode(html[NextImg(html, 1)].v, <<>>)

createImageNodeFromFigure(html) ==
    IF NextImg(html, 1) = 0 THEN NoNode
    ELSE LET S == {i \in 1..Len(html) :
                      /\ html[i] = Open("figcaption")
                      /\ NextClose(html, i + 1, "figcaption") # 0}
         IN createImageNode(
                html[NextImg(html, 1)].v,
                IF S = {} THEN <<>>
                ELSE TextOf(trim(StripTags(
                         SubSeq(html, Least(S) + 1,
                                NextClose(html, Least(S) + 1, "figcaption") - 1)))))

\* textBefore && textBefore.replace(/<[^>]+>/g, '').trim()
HasText(s) == s # <<>> /\ trim(StripTags(s)) # <<>>

RECURSIVE StandaloneFrom(_, _)
\* the while loop of parseStandaloneContent from lastIdx on, and the text
\* after the last image
StandaloneFrom(html, lastIdx) ==
    IF NextImg(html, lastIdx) = 0
    THEN (IF HasText(trim(SubSeq(html, lastIdx, Len(html))))
          THEN <<createParagraphNode(trim(SubSeq(html, lastIdx, Len(html))))>>
          ELSE <<>>)
    ELSE LET i == NextImg(html, lastIdx)
             textBefore == trim(SubSeq(html, lastIdx, i - 1))
         IN (IF HasText(textBefore)
             THEN <<createParagraphNode(textBefore)>> ELSE <<>>)
            \o <<createImageNodeFromImg(html[i])>>
            \o StandaloneFrom(html, i + 1)

parseStandaloneContent(html) ==
    IF StandaloneFrom(html, 1) # <<>> THEN StandaloneFrom(html, 1)
    ELSE <<createParagraphNode(html)>>

\* the block tags of blockPattern that the contents use
BlockTags == {"p", "h2", "blockquote", "figure", "div"}

\* index of the next match of blockPattern at or after from (0: none)
NextBlock(s, from) ==
    LET S == {i \in from..Len(s) :
                 \/ /\ s[i].k = "open" /\ s[i].v \in BlockTags
                    /\ NextClose(s, i + 1, s[i].v) # 0
                 \/ s[i].k = "void"}
    IN IF S = {} THEN 0 ELSE Least(S)

\* the document convertHtmlToTipTapJson returns for empty input
NullDoc == [type |-> "null", content |-> <<>>]

RECURSIVE BlocksFrom(_, _)
RECURSIVE convertHtmlToTipTapJson(_)
\* the while loop of convertHtmlToTipTapJson from lastIndex on, and the
\* remaining content after the last block
BlocksFrom(cleanHtml, lastIndex) ==
    IF NextBlock(cleanHtml, lastIndex) = 0
    THEN (IF trim(SubSeq(cleanHtml, lastIndex, Len(cleanHtml))) # <<>>
          THEN parseStandaloneContent(
                   trim(SubSeq(cleanHtml, lastIndex, Len(cleanHtml))))
          ELSE <<>>)
    ELSE LET i == NextBlock(cleanHtml, lastIndex)
             tag == cleanHtml[i].v
             j == IF cleanHtml[i].k = "void" THEN i
                  ELSE NextClose(cleanHtml, i + 1, tag)
             innerHtml == SubSeq(cleanHtml, i + 1, j - 1)
             textBefore == trim(SubSeq(cleanHtml, lastIndex, i - 1))
             withoutImgs == LET Test(tok) == tok.k # "img"
                            IN SelectSeq(innerHtml, Test)
         IN (IF textBefore # <<>> THEN parseStandaloneContent(textBefore)
             ELSE <<>>)
            \o (CASE tag = "p" ->
                       IF NextImg(innerHtml, 1) # 0 /\ trim(withoutImgs) = <<>>
                       THEN <<createImageNodeFromImg(
                                  innerHtml[NextImg(innerHtml, 1)])>>
                       ELSE <<createParagraphNode(innerHtml)>>
                  [] tag = "h2" -> <<createHeadingNode(innerHtml, 2)>>
                  [] tag = "blockquote" -> <<createBlockquoteNode(innerHtml)>>
                  [] tag = "figure" ->
                       IF createImageNodeFromFigure(innerHtml) = NoNode
                       THEN <<>>
                       ELSE <<createImageNodeFromFigure(innerHtml)>>
                  [] tag = "hr" -> <<[type |-> "horizontalRule"]>>
                  [] tag = "div" -> convertHtmlToTipTapJson(innerHtml).content
                  [] OTHER -> <<createParagraphNode(<<>>)>>)
            \o BlocksFrom(cleanHtml, j + 1)

\* convertHtmlToTipTapJson without the closing fallback paragraph
convertHtmlToTipTapJsonNoFallback(html) ==
    IF html = <<>> THEN NullDoc
    ELSE [type |-> "doc",
          content |-> BlocksFrom(preprocessWordPressContent(html), 1)]

convertHtmlToTipTapJson(html) ==
    IF html = <<>> THEN NullDoc
    ELSE LET cleanHtml == preprocessWordPressContent(html)
             nodes == BlocksFrom(cleanHtml, 1)
         IN [type |-> "doc",
             content |-> IF nodes = <<>> /\ cleanHtml # <<>>
                         THEN <<createParagraphNode(cleanHtml)>>
                         ELSE nodes]

\* <tag>inner</tag>
Wrap(tag, inner) == <<Open(tag)>> \o inner \o <<Close(tag)>>

SrcRelative == "/wp-content/uploads/2020/x.png"
SrcFull == "https://www.btaskee.com/wp-content/uploads/2020/x.png"
SrcPlain == "/a.png"

\* pieces of text
Texts == { <<Ch("Hi")>>, <<Ch(" "), Ch("there")>>, <<Ch(" ")>> }

\* pieces of inline content: text, text inside one or two inline tags (an
\* empty tag and an unclosed tag included), a line break
InlineItems ==
    Texts
    \cup {Wrap(t, x) : t \in {"strong", "b", "em"}, x \in {<<Ch("Hi")>>, <<>>}}
    \cup {Wrap("strong", Wrap("b", <<Ch("Hi")>>)),
          Wrap("strong", Wrap("em", <<Ch("Hi")>>)),
          Wrap("em", Wrap("strong", <<Ch("Hi")>>)),
          <<Void("br")>>, <<Open("strong")>>}

\* pieces of block content: blocks, images, shortcodes, comments, bare text
BlockItems ==
    {<<Ch("Hi")>>, <<Ch(" ")>>,
     Wrap("p", <<Ch("Hi")>>),
     Wrap("p", <<Ch(" ")>>)}
    \cup {Wrap("p", <<Img(SrcRelative)>>),
          Wrap("p", <<Img(SrcRelative), Ch("Hi")>>),
          Wrap("h2", <<Ch("Hi")>>),
          Wrap("blockquote", <<Ch("Hi")>>),
          Wrap("div", Wrap("p", <<Ch("Hi")>>)),
          Wrap("figure", <<Img(SrcFull)>> \o Wrap("figcaption", <<Ch("Hi")>>)),
          Wrap("figure", <<Ch("Hi")>>),
          <<Img(SrcRelative)>>, <<Img(SrcPlain)>>,
          <<WpComment>>, <<Void("br")>>, <<Void("hr")>>, <<Open("p")>>,
          <<CaptionOpen, Img(SrcPlain), Ch("Hello"), CaptionClose>>,
          <<CaptionOpen, Ch("Hello"), Img(SrcPlain), Img(SrcFull),
            CaptionClose>>,
          <<CaptionOpen, Ch("Hello"), CaptionClose>>}

RECURSIVE Concats(_, _)
\* the concatenations of at most n pieces
Concats(items, n) ==
    IF n = 0 THEN {<<>>}
    ELSE Concats(items, n - 1)
         \cup {x \o y : x \in Concats(items, n - 1), y \in items}

InlineContents == Concats(InlineItems, MaxItems)
BlockContents == Concats(BlockItems, MaxItems)

\* s.startsWith(prefix)
StartsWith(s, prefix) ==
    Len(s) >= Len(prefix) /\ SubSeq(s, 1, Len(prefix)) = prefix

\* s.endsWith(suffix)
EndsWith(s, suffix) ==
    Len(s) >= Len(suffix)
    /\ SubSeq(s, Len(s) - Len(suffix) + 1, Len(s)) = suffix

\* s.includes(part)
Includes(s, part) ==
    \E i \in 1..(Len(s) - Len(part) + 1) :
        SubSeq(s, i, i + Len(part) - 1) = part

UploadsPath == "/wp-content/uploads/"

\* <a href="...">
Link(href) == [k |-> "link", v |-> href]

\* https?:\/\/(?:www\.)?btaskee\.com\/wp-content\/uploads\/[^"']+
IsSiteUploadUrl(u) ==
    \E origin \in {"http://btaskee.com", "https://btaskee.com",
                   "http://www.btaskee.com", "https://www.btaskee.com"} :
        /\ StartsWith(u, origin \o UploadsPath)
        /\ Len(u) > Len(origin \o UploadsPath)

\* \/wp-content\/uploads\/[^"']+
IsRelativeUpload(u) == StartsWith(u, UploadsPath) /\ Len(u) > Len(UploadsPath)

\* number of digits after http://localhost: when what follows them is
\* /wp-content/uploads/ and one character more (0: no match)
LocalhostDigits(u) ==
    LET prefix == "http://localhost:"
        S == {n \in 1..5 :
                 /\ StartsWith(u, prefix)
                 /\ Len(u) > Len(prefix) + n + Len(UploadsPath)
                 /\ \A i \in 1..n :
                        SubSeq(u, Len(prefix) + i, Len(prefix) + i)
                            \in {"0", "1", "2", "3", "4", "5", "6", "7",
                                 "8", "9"}
                 /\ SubSeq(u, Len(prefix) + n + 1,
                           Len(prefix) + n + Len(UploadsPath)) = UploadsPath}
    IN IF S = {} THEN 0 ELSE Least(S)

\* match[1] of localhostPattern: what follows /wp-content/uploads/
LocalhostRest(u) ==
    SubSeq(u, Len("http://localhost:") + LocalhostDigits(u)
              + Len(UploadsPath) + 1, Len(u))

\* \/wp-content\/uploads\/[^\s"'<>]+\.(?:jpg|jpeg|png|gif|webp|svg|pdf|doc|docx)
IsDirectPath(u) ==
    /\ IsRelativeUpload(u)
    /\ ~Includes(u, " ")
    /\ \E ext \in {"jpg", "jpeg", "png", "gif", "webp", "svg", "pdf", "doc",
                   "docx"} :
           /\ EndsWith(u, "." \o ext)
           /\ Len(u) > Len(UploadsPath) + Len(ext) + 1

\* the values of the lexemes of one kind, in order
ValuesOf(content, kind) ==
    LET Test(tok) == tok.k = kind
        toks == SelectSeq(content, Test)
    IN [i \in 1..Len(toks) |-> toks[i].v]

RECURSIVE AddAll(_, _)
\* urls.add(u) for each u of us, in order: a Set keeps the first insertion
AddAll(urls, us) ==
    IF us = <<>> THEN urls
    ELSE AddAll(IF \E i \in 1..Len(urls) : urls[i] = Head(us)
                THEN urls ELSE Append(urls, Head(us)),
                Tail(us))

\* the text between each [caption ...] and the next [/caption], joined
RECURSIVE CaptionInners(_, _)
CaptionInners(s, from) ==
    IF NextCaption(s, from) = 0 THEN <<>>
    ELSE LET i == NextCaption(s, from)
             j == Least({n \in (i + 1)..Len(s) : s[n] = CaptionClose})
         IN <<SubSeq(s, i + 1, j - 1)>> \o CaptionInners(s, j + 1)

RECURSIVE CaptionUrls(_, _)
\* pattern 5: for each caption, its relative srcs, then its full srcs
CaptionUrls(inners, base) ==
    IF inners = <<>> THEN <<>>
    ELSE LET srcs == ValuesOf(Head(inners), "img")
             relative == SelectSeq(srcs, IsRelativeUpload)
         IN [i \in 1..Len(relative) |-> base \o relative[i]]
            \o SelectSeq(srcs, IsSiteUploadUrl)
            \o CaptionUrls(Tail(inners), base)

\* extractMediaUrls that adds a relative path as it stands
extractMediaUrlsKeepRelative(content, base) ==
    LET srcs == ValuesOf(content, "img")
    IN AddAll(<<>>, SelectSeq(srcs, IsSiteUploadUrl)
                    \o SelectSeq(srcs, IsRelativeUpload))

\* extractMediaUrls(content) with CONFIG.WP_BASE_URL = base
extractMediaUrls(content, base) ==
    IF content = <<>> THEN <<>>
    ELSE LET srcs == ValuesOf(content, "img")
             hrefs == ValuesOf(content, "link")
             quoted == LET Test(tok) == tok.k \in {"img", "link"}
                           toks == SelectSeq(content, Test)
                       IN [i \in 1..Len(toks) |-> toks[i].v]
             relative == SelectSeq(srcs, IsRelativeUpload)
             localhost == LET Test(u) == LocalhostDigits(u) # 0
                          IN SelectSeq(srcs, Test)
             direct == SelectSeq(quoted, IsDirectPath)
         IN AddAll(<<>>,
                SelectSeq(srcs, IsSiteUploadUrl)
                \o [i \in 1..Len(relative) |-> base \o relative[i]]
                \o [i \in 1..Len(localhost) |->
                        base \o UploadsPath \o LocalhostRest(localhost[i])]
                \o SelectSeq(hrefs, IsSiteUploadUrl)
                \o CaptionUrls(CaptionInners(content, 1), base)
                \o [i \in 1..Len(direct) |-> base \o direct[i]])

\* values of CONFIG.WP_BASE_URL
BaseUrls == {"https://www.btaskee.com", "https://example.com"}

\* pieces of content with media references
MediaItems ==
    {<<Img(src)>> : src \in {SrcRelative, SrcFull, SrcPlain,
                             "http://btaskee.com/wp-content/uploads/2020/x.png",
                             "http://localhost:8000/wp-content/uploads/2020/x.png",
                             "https://cdn.example.org/y.png"}}
    \cup {<<Link(href)>> :
             href \in {"https://www.btaskee.com/wp-content/uploads/f.pdf",
                       "/wp-content/uploads/f.pdf",
                       "https://www.btaskee.com/about"}}
    \cup {<<Ch("Hi")>>,
          <<CaptionOpen, Img(SrcRelative), Ch("Hello"), CaptionClose>>,
          <<CaptionOpen, Img(SrcFull), Ch("Hello"), CaptionClose>>}

MediaContents == Concats(MediaItems, MaxItems)

\* a content string and a base URL before extractMediaUrls is applied
MediaInput(content, base) ==
    [op |-> "input", kind |-> "media", html |-> content, base |-> base]

\* extractMediaUrls(content)
ExtractMedia ==
    /\ conv.op = "input" /\ conv.kind = "media"
    /\ conv' = [op |-> "extractMediaUrls", html |-> conv.html,
                base |-> conv.base,
                result |-> extractMediaUrls(conv.html, conv.base)]
    /\ UNCHANGED <<programVars, reader, server>>

\* node.type === 'image'
IsImageNode(node) == "type" \in DOMAIN node /\ node.type = "image"

\* node.attrs.src after lines 857-874: the asset path when the URL looked up
\* for src is a key of the map
RewriteSrc(node, urlToUuidMap, base) ==
    IF ~(IsImageNode(node) /\ node.src # "") THEN node
    ELSE IF StartsWith(node.src, UploadsPath)
    THEN (IF (base \o node.src) \in DOMAIN urlToUuidMap
          THEN [node EXCEPT !.src = "/assets/" \o urlToUuidMap[base \o node.src]]
          ELSE node)
    ELSE IF Includes(node.src, UploadsPath)
    THEN (IF node.src \in DOMAIN urlToUuidMap
          THEN [node EXCEPT !.src = "/assets/" \o urlToUuidMap[node.src]]
          ELSE node)
    ELSE node

RECURSIVE processNodes(_, _, _)
\* content.map(processNode)
processNodes(nodes, urlToUuidMap, base) ==
    [i \in 1..Len(nodes) |->
        LET node == RewriteSrc(nodes[i], urlToUuidMap, base)
        IN IF "content" \in DOMAIN node
           THEN [node EXCEPT
                    !.content = processNodes(@, urlToUuidMap, base)]
           ELSE node]

\* replaceUrlsInTipTapJson that does not descend into the blocks
replaceUrlsInTipTapJsonTopLevelOnly(tiptapJson, urlToUuidMap, base) ==
    [tiptapJson EXCEPT
        !.content = [i \in 1..Len(@) |-> RewriteSrc(@[i], urlToUuidMap, base)]]

\* replaceUrlsInTipTapJson(tiptapJson, urlToUuidMap) with
\* CONFIG.WP_BASE_URL = base
replaceUrlsInTipTapJson(tiptapJson, urlToUuidMap, base) ==
    IF tiptapJson = NullDoc THEN tiptapJson
    ELSE [tiptapJson EXCEPT
             !.content = processNodes(@, urlToUuidMap, base)]

\* the URLs importMediaUrl is called with, which become the keys of the
\* map: what extractMediaUrls returns
MediaUrls(base) ==
    {SrcFull, "http://btaskee.com/wp-content/uploads/2020/x.png",
     base \o SrcRelative}

\* the asset id Directus gave a URL
AssetOf(url) ==
    CASE url = SrcFull -> "uuid-1"
      [] url = "http://btaskee.com/wp-content/uploads/2020/x.png" -> "uuid-2"
      [] OTHER -> "uuid-3"

\* the block nodes of the documents: images of every kind of source, with
\* and without caption, text blocks, and images inside other blocks
NodeChoices ==
    {createImageNode(src, <<>>) :
        src \in {SrcRelative, SrcFull, SrcPlain,
                 "http://localhost:8000/wp-content/uploads/2020/x.png"}}
    \cup {createImageNode(SrcFull, <<"Hello">>),
          createParagraphNode(<<Ch("Hi")>>),
          [type |-> "blockquote",
           content |-> <<createImageNode(SrcRelative, <<>>)>>],
          [type |-> "bulletList",
           content |-> <<[type |-> "listItem",
                          content |-> <<createParagraphNode(<<Ch("Hi")>>),
                                        createImageNode(SrcFull, <<>>)>>]>>]}

RECURSIVE NodeSeqs(_)
\* the sequences of at most n block nodes
NodeSeqs(n) ==
    IF n = 0 THEN {<<>>}
    ELSE NodeSeqs(n - 1)
         \cup {Append(s, node) : s \in NodeSeqs(n - 1), node \in NodeChoices}

DocChoices ==
    {NullDoc} \cup {[type |-> "doc", content |-> s] : s \in NodeSeqs(MaxItems)}

\* a document, a map and a base URL before replaceUrlsInTipTapJson is applied
DocInput(doc, urlToUuidMap, base) ==
    [op |-> "input", kind |-> "doc", doc |-> doc, map |-> urlToUuidMap,
     base |-> base]

DocInputs ==
    UNION {{DocInput(doc, [url \in keys |-> AssetOf(url)], base) :
               doc \in DocChoices, keys \in SUBSET MediaUrls(base)} :
           base \in BaseUrls}

\* replaceUrlsInTipTapJson(tiptapJson, urlToUuidCache)
ReplaceUrls ==
    /\ conv.op = "input" /\ conv.kind = "doc"
    /\ conv' = [op |-> "replaceUrlsInTipTapJson", doc |-> conv.doc,
                map |-> conv.map, base |-> conv.base,
                result |-> replaceUrlsInTipTapJson(conv.doc, conv.map,
                                                   conv.base)]
    /\ UNCHANGED <<programVars, reader, server>>

\* a content string before a function is applied to it
ConvInput(kind, html) == [op |-> "input", kind |-> kind, html |-> html]

\* convertHtmlToTipTapJson(html)
Convert ==
    /\ conv.op = "input" /\ conv.kind \in {"inline", "paragraph", "block"}
    /\ conv' = [op |-> "convertHtmlToTipTapJson", html |-> conv.html,
                result |-> convertHtmlToTipTapJson(conv.html)]
    /\ UNCHANGED <<programVars, reader, server>>

\* parseInlineContent(html)
ParseInline ==
    /\ conv.op = "input" /\ conv.kind \in {"inline", "paragraph"}
    /\ conv' = [op |-> "parseInlineContent", html |-> conv.html,
                result |-> parseInlineContent(conv.html)]
    /\ UNCHANGED <<programVars, reader, server>>

HtmlNext ==
    \/ Convert
    \/ ParseInline
    \/ ExtractMedia
    \/ ReplaceUrls

HtmlInit ==
    /\ InitStores
    /\ rejects = {}
    /\ reader = ReaderOff
    /\ server = ServerOff
    /\ conv \in {ConvInput("inline", h) : h \in InlineContents}
            \cup {ConvInput("paragraph", Wrap("p", h)) : h \in InlineContents}
            \cup {ConvInput("block", h) : h \in BlockContents}
            \cup {MediaInput(h, b) : h \in MediaContents, b \in BaseUrls}
            \cup DocInputs

HtmlSpec == HtmlInit /\ [][HtmlNext]_vars

\* ---------------------------------------------------------------------
\* ServerSpec: the GUI server (server.js) and its migration child
\* processes. The requests are handled one at a time by the event loop;
\* a child that was sent a signal, or that ends by itself, is alive until
\* its close event is handled.
\* ---------------------------------------------------------------------

\* migrationProcess === null
NoProcess == 0

\* what a POST /api/migrate body can lack
BodyChoices == {"complete", "templates", "folder", "author"}

\* the server after start-up: let migrationProcess = null,
\* migrationStatus = {isRunning: false, ...}
ServerStart ==
    [pc |-> "listening",
     migrationProcess |-> NoProcess,
     isRunning |-> FALSE,
     alive |-> {},        \* children spawned whose close event is pending
     killed |-> {},       \* alive children that kill() was called on
     spawned |-> 0,       \* number of children spawned so far
     cleared |-> NoProcess, \* the child whose running state a close event
                          \* of another child cleared last (0: none)
     response |-> "none"]

\* POST /api/migrate with runMigration('migrate', ...)
PostMigrate ==
    /\ server.pc = "listening"
    /\ \E body \in BodyChoices :
          IF server.isRunning
          THEN server' = [server EXCEPT !.response = "400 already running"]
          ELSE IF body # "complete"
          THEN server' = [server EXCEPT !.response = "400 " \o body]
          ELSE IF server.migrationProcess # NoProcess
          THEN \* runMigration throws, the handler has answered already
               server' = [server EXCEPT !.response = "200 started"]
          ELSE /\ server.spawned < MaxChildren
               /\ server' = [server EXCEPT
                      !.isRunning = TRUE,
                      !.migrationProcess = server.spawned + 1,
                      !.alive = @ \cup {server.spawned + 1},
                      !.spawned = @ + 1,
                      !.response = "200 started"]
    /\ UNCHANGED <<programVars, reader, conv>>

\* POST /api/stop
PostStop ==
    /\ server.pc = "listening"
    /\ IF server.migrationProcess # NoProcess
       THEN server' = [server EXCEPT
                !.killed = @ \cup ({server.migrationProcess} \cap server.alive),
                !.migrationProcess = NoProcess,
                !.isRunning = FALSE,
                !.response = "200 stopped"]
       ELSE server' = [server EXCEPT !.response = "400 not running"]
    /\ UNCHANGED <<programVars, reader, conv>>

\* migrationProcess.on('close', ...) of child c, the handler registered when
\* c was spawned: it clears the module variables whatever they hold
ChildClose ==
    /\ server.pc = "listening"
    /\ \E c \in server.alive :
          server' = [server EXCEPT
              !.alive = @ \ {c},
              !.killed = @ \ {c},
              !.isRunning = FALSE,
              !.migrationProcess = NoProcess,
              !.cleared = IF server.migrationProcess \notin {NoProcess, c}
                          THEN server.migrationProcess ELSE @,
              !.response = "none"]
    /\ UNCHANGED <<programVars, reader, conv>>

ServerNext ==
    \/ PostMigrate
    \/ PostStop
    \/ ChildClose

ServerInit ==
    /\ InitStores
    /\ rejects = {}
    /\ reader = ReaderOff
    /\ conv = ConvOff
    /\ server = ServerStart

ServerSpec == ServerInit /\ [][ServerNext]_vars


(***************************************************************************)
(* StoreSpec: the tracking store API called by arbitrary clients           *)
(***************************************************************************)
\* (table_name, old_id) pairs the callers use
StoreEntities == { <<"post", "1">>, <<"directus_files", URL1>> }

\* (newId, status, errorMessage) argument triples of trackMigration calls
StoreCalls == { <<"f1", "success", NULL>>, <<"f2", "success", NULL>>,
                <<NULL, "success", NULL>>, <<NULL, "failed", "boom">>,
                <<NULL, "pending", NULL>>, <<"f1", "rolled_back", NULL>> }

WriteKey(w) == <<w.batch_id, w.table_name, w.old_id>>

\* remember the arguments of the latest write for its key
RecordWrite(lw, batchId, tableName, oldId, newId, status, errorMessage) ==
    {w \in lw : WriteKey(w) # <<batchId, tableName, oldId>>}
    \cup {[batch_id |-> batchId, table_name |-> tableName, old_id |-> oldId,
           new_id |-> newId, status |-> status, error_message |-> errorMessage]}

StoreCreateBatch ==
    /\ Cardinality(migration_batch) < MaxBatches
    /\ migration_batch' = createBatch(migration_batch)
    /\ ret' = NoRet
    /\ UNCHANGED <<db, dbSeq, directus_files, migration_data, proc,
                   urlToUuidCache, rejects, hist,
                   reader, conv, server>>

StoreTrack ==
    \E b \in migration_batch, e \in StoreEntities, c \in StoreCalls :
        /\ \/ ConflictRows(migration_data, b.id, e[1], e[2]) # {}
           \/ Cardinality(migration_data) < MaxStoreRows
        /\ migration_data' = trackMigration(migration_data, b.id, e[1], e[2],
                                            NewIdOfString(c[1]), c[2], c[3])
        /\ hist' = [hist EXCEPT !.lastWrite =
                       RecordWrite(@, b.id, e[1], e[2],
                                   NewIdOfString(c[1]), c[2], c[3])]
        /\ ret' = [op |-> "trackMigration",
                   updated |-> ConflictRows(migration_data, b.id, e[1], e[2]) # {}]
        /\ UNCHANGED <<db, dbSeq, directus_files, migration_batch, proc,
                       urlToUuidCache, rejects,
                   reader, conv, server>>

StoreIsAlreadyMigrated ==
    \E e \in StoreEntities :
        /\ ret' = [op |-> "isAlreadyMigrated", table_name |-> e[1],
                   old_id |-> e[2],
                   value |-> isAlreadyMigrated(migration_data, e[1], e[2])]
        /\ UNCHANGED <<db, dbSeq, directus_files, migration_batch,
                       migration_data, proc, urlToUuidCache, rejects, hist,
                   reader, conv, server>>

StoreGetMigratedId ==
    \E e \in StoreEntities :
        /\ ret' = [op |-> "getMigratedId", table_name |-> e[1],
                   old_id |-> e[2],
                   value |-> getMigratedId(migration_data, e[1], e[2])]
        /\ UNCHANGED <<db, dbSeq, directus_files, migration_batch,
                       migration_data, proc, urlToUuidCache, rejects, hist,
                   reader, conv, server>>

StoreNext ==
    \/ StoreCreateBatch
    \/ StoreTrack
    \/ StoreIsAlreadyMigrated
    \/ StoreGetMigratedId

StoreInit == Init /\ rejects = {}

StoreSpec == StoreInit /\ [][StoreNext]_vars

(***************************************************************************)
(* Target database: inserts, and deletes with the foreign keys of          *)
(* update_constraints.sql                                                  *)
(***************************************************************************)
\* INSERT ... ON CONFLICT (id) DO UPDATE: the row replaces the one with its id
UpsertById(rows, row) ==
    {r \in rows : r.id # row.id} \cup {row}

\* DELETE FROM <table> WHERE id = ANY(ids), with ON DELETE CASCADE / SET NULL
DeleteRows(d, tableName, ids) ==
    CASE tableName = "post" ->
           [d EXCEPT !.post = {r \in @ : r.id \notin ids},
                     !.post_translations = {r \in @ : r.post_id \notin ids},
                     !.post_tag = {r \in @ : r.post_id \notin ids}]
      [] tableName = "tag" ->
           [d EXCEPT !.tag = {r \in @ : r.id \notin ids},
                     !.tag_translations = {r \in @ : r.tag_id \notin ids},
                     !.post_tag = {r \in @ : r.tag_id \notin ids}]
      [] tableName = "collection" ->
           [d EXCEPT !.collection = {r \in @ : r.id \notin ids},
                     !.collection_translations =
                         {r \in @ : r.collection_id \notin ids},
                     !.post = {IF r.collection \in ids
                               THEN [r EXCEPT !.collection = 0] ELSE r
                               : r \in @}]
      [] tableName \in {"post_tag", "tag_translations",
                        "collection_translations"} ->
           [d EXCEPT ![tableName] = {r \in @ : r.id \notin ids}]
      [] OTHER -> d

\* the target database raises a constraint violation for this row
Rejected(tableName, id) == <<tableName, id>> \in rejects

(***************************************************************************)
(* runMigration: the entity migrators in dependency order                  *)
(***************************************************************************)
\* the order of the migrator calls in runMigration
PhaseOrderPostsBeforeCategories ==
    <<"tags", "tagTranslations", "posts", "categories",
      "categoryTranslations", "postTags">>

PhaseOrder == <<"tags", "tagTranslations", "categories",
                "categoryTranslations", "posts", "postTags">>

PhaseLen(ph) ==
    CASE ph = "tags" -> Len(TagsFile)
      [] ph = "tagTranslations" -> Len(TagsFile)
      [] ph = "categories" -> Len(CategoryFile)
      [] ph = "categoryTranslations" -> Len(CategoryFile)
      [] ph = "posts" -> Len(WpPosts)
      [] ph = "postTags" -> Len(PostTagsFile)

PhaseIndex(ph) == CHOOSE i \in 1..Len(PhaseOrder) : PhaseOrder[i] = ph

\* the process after the current item of its loop: next item, next migrator,
\* or completeBatch (every source file holds at least one entry)
Advance(p) ==
    IF p.idx < PhaseLen(p.pc)
    THEN [p EXCEPT !.idx = @ + 1, !.step = "check"]
    ELSE IF PhaseIndex(p.pc) < Len(PhaseOrder)
         THEN [p EXCEPT !.pc = PhaseOrder[PhaseIndex(p.pc) + 1], !.idx = 1,
                        !.step = "check", !.finished = Append(@, p.pc)]
         ELSE [p EXCEPT !.pc = "complete", !.idx = 0, !.step = "none",
                        !.finished = Append(@, p.pc)]

EmptyCache == [u \in Urls |-> NULL]
EmptyLog == [u \in Urls |-> <<>>]

\* the setting a migrate command lacks ("none": the configuration is complete)
ConfigChoices == {"none", "token", "folder", "templates", "author"}

\* the command stops before createBatch: process.exit(1) of runMigration
\* for the token and the folder, the 400 answers of POST /api/migrate for
\* the templates, the folder and the author
FailsFast(via, missing) ==
    \/ missing \in {"token", "folder"}
    \/ via = "api" /\ missing \in {"templates", "author"}

\* how runMigration ended: process.exit(1) ("exit"), the rethrown exception
\* ("thrown") or the normal return ("returned")
RunEvent(outcome, batchId, error, missing, finished) ==
    [op |-> "runMigration", outcome |-> outcome, batchId |-> batchId,
     error |-> error, missing |-> missing, finished |-> finished]

\* node migration_script.js migrate (via "cli") or POST /api/migrate (via
\* "api"): the configuration tests, a new process, createBatch
StartRun ==
    \E via \in {"cli", "api"}, missing \in ConfigChoices :
        /\ proc.pc = "idle"
        /\ hist.nCommands < MaxCommands
        /\ IF FailsFast(via, missing)
           THEN /\ ret' = RunEvent("exit", 0, NULL, missing, <<>>)
                /\ UNCHANGED <<migration_batch, proc, urlToUuidCache, hist>>
           ELSE /\ migration_batch' = createBatch(migration_batch)
                /\ proc' = [ProcIdle EXCEPT
                              !.pc = PhaseOrder[1],
                              !.batchId = Cardinality(migration_batch) + 1,
                              !.idx = 1, !.step = "check",
                              !.templates = (missing # "templates")]
                /\ urlToUuidCache' = EmptyCache
                /\ hist' = [hist EXCEPT !.importLog = EmptyLog,
                                        !.nCommands = @ + 1]
                /\ ret' = NoRet
        /\ UNCHANGED <<db, dbSeq, directus_files, migration_data, rejects,
                   reader, conv, server>>

\* migrateTags without the isAlreadyMigrated test
MigrateTagWithoutSkip ==
    /\ proc.pc = "tags"
    /\ LET tag == TagsFile[proc.idx]
           oldId == String(tag.tag_id)
       IN IF ~Rejected("tag", tag.tag_id)
          THEN /\ db' = [db EXCEPT !.tag =
                            IF \E r \in @ : r.id = tag.tag_id
                            THEN @ ELSE @ \cup {[id |-> tag.tag_id]}]
               /\ migration_data' =
                    trackMigration(migration_data, proc.batchId, "tag",
                        oldId, NewIdOfNumber(tag.tag_id), "success", NULL)
          ELSE /\ migration_data' =
                    trackMigration(migration_data, proc.batchId, "tag",
                        oldId, NULL, "failed", "insert failed")
               /\ UNCHANGED db
    /\ proc' = Advance(proc)
    /\ ret' = NoRet
    /\ UNCHANGED <<dbSeq, directus_files, migration_batch, urlToUuidCache,
                   hist, rejects,
                   reader, conv, server>>

\* one iteration of the loop of migrateTags
MigrateTag ==
    /\ proc.pc = "tags"
    /\ LET tag == TagsFile[proc.idx]
           oldId == String(tag.tag_id)
       IN IF isAlreadyMigrated(migration_data, "tag", oldId)
          THEN UNCHANGED <<db, migration_data>>
          ELSE IF ~Rejected("tag", tag.tag_id)
          THEN /\ db' = [db EXCEPT !.tag =
                            IF \E r \in @ : r.id = tag.tag_id
                            THEN @ ELSE @ \cup {[id |-> tag.tag_id]}]
               /\ migration_data' =
                    trackMigration(migration_data, proc.batchId, "tag",
                        oldId, NewIdOfNumber(tag.tag_id), "success", NULL)
          ELSE /\ migration_data' =
                    trackMigration(migration_data, proc.batchId, "tag",
                        oldId, NULL, "failed", "insert failed")
               /\ UNCHANGED db
    /\ proc' = Advance(proc)
    /\ ret' = NoRet
    /\ UNCHANGED <<dbSeq, directus_files, migration_batch, urlToUuidCache,
                   hist, rejects,
                   reader, conv, server>>

\* one iteration of the loop of migrateTagTranslations
MigrateTagTranslation ==
    /\ proc.pc = "tagTranslations"
    /\ LET tag == TagsFile[proc.idx]
           oldId == TagTranslationOldId(tag.tag_id)
           newRowId == dbSeq.tag_translations + 1
       IN IF isAlreadyMigrated(migration_data, "tag_translations", oldId)
          THEN UNCHANGED <<db, dbSeq, migration_data>>
          ELSE IF /\ ~Rejected("tag_translations", tag.tag_id)
                  /\ \E r \in db.tag : r.id = tag.tag_id
          THEN /\ db' = [db EXCEPT !.tag_translations =
                            @ \cup {[id |-> newRowId, tag_id |-> tag.tag_id]}]
               /\ dbSeq' = [dbSeq EXCEPT !.tag_translations = newRowId]
               /\ migration_data' =
                    trackMigration(migration_data, proc.batchId,
                        "tag_translations", oldId,
                        NewIdOfNumber(newRowId), "success", NULL)
          ELSE /\ migration_data' =
                    trackMigration(migration_data, proc.batchId,
                        "tag_translations", oldId, NULL, "failed",
                        "insert failed")
               /\ UNCHANGED <<db, dbSeq>>
    /\ proc' = Advance(proc)
    /\ ret' = NoRet
    /\ UNCHANGED <<directus_files, migration_batch, urlToUuidCache, hist,
                   rejects,
                   reader, conv, server>>

\* migrateCategories without template ids: throws before its loop
CategoriesConfigError ==
    /\ proc.pc = "categories"
    /\ ~proc.templates
    /\ proc' = [proc EXCEPT !.pc = "failed", !.idx = 0, !.step = "none",
                            !.error = "POST_TEMPLATE_ID and COLLECTION_TEMPLATE_ID must be provided"]
    /\ ret' = NoRet
    /\ UNCHANGED <<db, dbSeq, directus_files, migration_batch, migration_data,
                   urlToUuidCache, hist, rejects,
                   reader, conv, server>>

\* one iteration of the loop of migrateCategories
MigrateCategory ==
    /\ proc.pc = "categories"
    /\ proc.templates
    /\ LET cat == CategoryFile[proc.idx]
           oldId == String(cat.id)
       IN IF isAlreadyMigrated(migration_data, "collection", oldId)
          THEN UNCHANGED <<db, migration_data>>
          ELSE IF ~Rejected("collection", cat.id)
          THEN /\ db' = [db EXCEPT !.collection =
                            UpsertById(@, [id |-> cat.id])]
               /\ migration_data' =
                    trackMigration(migration_data, proc.batchId,
                        "collection", oldId, NewIdOfNumber(cat.id),
                        "success", NULL)
          ELSE /\ migration_data' =
                    trackMigration(migration_data, proc.batchId,
                        "collection", oldId, NULL, "failed", "insert failed")
               /\ UNCHANGED db
    /\ proc' = Advance(proc)
    /\ ret' = NoRet
    /\ UNCHANGED <<dbSeq, directus_files, migration_batch, urlToUuidCache,
                   hist, rejects,
                   reader, conv, server>>

\* one iteration of the loop of migrateCategoryTranslations
MigrateCategoryTranslation ==
    /\ proc.pc = "categoryTranslations"
    /\ LET cat == CategoryFile[proc.idx]
           oldId == CollectionTranslationOldId(cat)
           newRowId == dbSeq.collection_translations + 1
       IN IF isAlreadyMigrated(migration_data, "collection_translations", oldId)
             \/ ~(\E r \in db.collection : r.id = cat.id)
          THEN UNCHANGED <<db, dbSeq, migration_data>>
          ELSE IF ~Rejected("collection_translations", cat.id)
          THEN /\ db' = [db EXCEPT !.collection_translations =
                            @ \cup {[id |-> newRowId, collection_id |-> cat.id]}]
               /\ dbSeq' = [dbSeq EXCEPT !.collection_translations = newRowId]
               /\ migration_data' =
                    trackMigration(migration_data, proc.batchId,
                        "collection_translations", oldId,
                        NewIdOfNumber(newRowId), "success", NULL)
          ELSE /\ migration_data' =
                    trackMigration(migration_data, proc.batchId,
                        "collection_translations", oldId, NULL,
                        "failed", "insert failed")
               /\ UNCHANGED <<db, dbSeq>>
    /\ proc' = Advance(proc)
    /\ ret' = NoRet
    /\ UNCHANGED <<directus_files, migration_batch, urlToUuidCache, hist,
                   rejects,
                   reader, conv, server>>

(***************************************************************************)
(* migrateSingleWpPost, one action per awaited step                        *)
(***************************************************************************)
CurrentPost == WpPosts[proc.idx]

\* the value migrateSingleWpPost returns, what the invocation did, and the
\* status the previous invocation for the same post returned
PostReturn(status, effects) ==
    [op |-> "migrateSingleWpPost", postId |-> CurrentPost.ID,
     status |-> status, effects |-> effects,
     before |-> hist.prevStatus[CurrentPost.ID],
     hadRows |-> proc.hadRows]

\* if (await isAlreadyMigrated('post', oldId)) return { status: 'skipped' }
PostCheck ==
    /\ proc.pc = "posts" /\ proc.step = "check"
    /\ IF isAlreadyMigrated(migration_data, "post", CurrentPost.ID)
       THEN /\ ret' = PostReturn("skipped", {})
            /\ hist' = [hist EXCEPT !.prevStatus[CurrentPost.ID] = "skipped"]
            /\ proc' = Advance(proc)
       ELSE /\ proc' = [proc EXCEPT
                          !.step = IF Len(CurrentPost.media) > 0
                                   THEN "media" ELSE "insertPost",
                          !.mIdx = 1, !.thumbnailUuid = NULL, !.effects = {},
                          !.hadRows =
                              \/ \E r \in db.post :
                                    r.id = parseInt(CurrentPost.ID)
                              \/ \E r \in db.post_translations :
                                    r.post_id = parseInt(CurrentPost.ID)]
            /\ ret' = NoRet
            /\ UNCHANGED hist
    /\ UNCHANGED <<db, dbSeq, directus_files, migration_batch, migration_data,
                   urlToUuidCache, rejects,
                   reader, conv, server>>

\* a variant that imports whatever the cache and the tracking store hold
ImportDecisionAlways(cache, md, url) == "import"

\* importMediaUrl: cache first, then the tracking store, then the import
ImportDecision(cache, md, url) ==
    IF cache[url] # NULL THEN "cache"
    ELSE IF getMigratedId(md, "directus_files", url) # NULL THEN "tracked"
    ELSE "import"

\* a variant in which a null result of importMediaUrl aborts the post
AfterMediaAbortOnNull(p, uuid, done) ==
    IF uuid = NULL
    THEN [p EXCEPT !.step = "catch", !.error = "Import failed",
                   !.effects = @ \cup done]
    ELSE [p EXCEPT !.thumbnailUuid = IF @ = NULL THEN uuid ELSE @,
                   !.mIdx = @ + 1,
                   !.step = IF p.mIdx < Len(WpPosts[p.idx].media)
                            THEN "media" ELSE "insertPost",
                   !.effects = @ \cup done]

\* if (uuid && !thumbnailUuid) thumbnailUuid = uuid; next url or step 2..5
AfterMedia(p, uuid, done) ==
    [p EXCEPT !.thumbnailUuid = IF uuid # NULL /\ @ = NULL THEN uuid ELSE @,
              !.mIdx = @ + 1,
              !.step = IF p.mIdx < Len(WpPosts[p.idx].media)
                       THEN "media" ELSE "insertPost",
              !.effects = @ \cup done]

\* the call of importFileToDirectus and its outcome
ImportCall(url, ok) ==
    [op |-> "importFileToDirectus", url |-> url, batchId |-> proc.batchId,
     ok |-> ok, importedBefore |-> hist.importedInBatch[url]]

\* await importMediaUrl(batchId, url) for the next url of the post
PostImportMedia ==
    /\ proc.pc = "posts" /\ proc.step = "media"
    /\ LET url == CurrentPost.media[proc.mIdx]
           decision == ImportDecision(urlToUuidCache, migration_data, url)
           newUuid == Uuid(Cardinality(directus_files) + 1)
       IN CASE decision = "cache" ->
                 /\ proc' = AfterMedia(proc, urlToUuidCache[url], {})
                 /\ ret' = NoRet
                 /\ UNCHANGED <<directus_files, migration_data,
                                urlToUuidCache, hist>>
            [] decision = "tracked" ->
                 /\ urlToUuidCache' = [urlToUuidCache EXCEPT ![url] =
                        getMigratedId(migration_data, "directus_files", url)]
                 /\ proc' = AfterMedia(proc,
                        getMigratedId(migration_data, "directus_files", url), {})
                 /\ ret' = NoRet
                 /\ UNCHANGED <<directus_files, migration_data, hist>>
            [] decision = "import" ->
                 \E ok \in BOOLEAN :
                   IF ok
                   THEN /\ directus_files' = directus_files \cup {newUuid}
                        /\ migration_data' =
                             trackMigration(migration_data, proc.batchId,
                                 "directus_files", url, NewIdOfString(newUuid),
                                 "success", NULL)
                        /\ urlToUuidCache' = [urlToUuidCache EXCEPT ![url] = newUuid]
                        /\ proc' = AfterMedia(proc, newUuid, {"import", "track"})
                        /\ ret' = ImportCall(url, TRUE)
                        /\ hist' = [hist EXCEPT
                              !.importLog[url] = Append(@, "ok"),
                              !.importedInBatch[url] =
                                  IF @ = 0 THEN proc.batchId ELSE @]
                   ELSE /\ migration_data' =
                             trackMigration(migration_data, proc.batchId,
                                 "directus_files", url, NULL, "failed",
                                 "Import failed")
                        /\ proc' = AfterMedia(proc, NULL, {"import", "track"})
                        /\ ret' = ImportCall(url, FALSE)
                        /\ hist' = [hist EXCEPT
                              !.importLog[url] = Append(@, "failed")]
                        /\ UNCHANGED <<directus_files, urlToUuidCache>>
    /\ UNCHANGED <<db, dbSeq, migration_batch, rejects,
                   reader, conv, server>>

\* postCategoryMapping.get(post.post_name) || null, then the existence check
\* (0: null)
CollectionOf(post, d) ==
    IF \E m \in 1..Len(PostCategoryFile) :
          /\ PostCategoryFile[m].post_name = post.post_name
          /\ \E r \in d.collection : r.id = PostCategoryFile[m].category_id
    THEN (CHOOSE m \in {PostCategoryFile[k] : k \in 1..Len(PostCategoryFile)} :
             m.post_name = post.post_name).category_id
    ELSE 0

\* Step 5: INSERT INTO post ... ON CONFLICT (id) DO UPDATE
PostInsertPost ==
    /\ proc.pc = "posts" /\ proc.step = "insertPost"
    /\ IF ~Rejected("post", parseInt(CurrentPost.ID))
       THEN /\ db' = [db EXCEPT !.post =
                 UpsertById(@, [id |-> parseInt(CurrentPost.ID),
                                thumbnail |-> proc.thumbnailUuid,
                                collection |-> CollectionOf(CurrentPost, db)])]
            /\ proc' = [proc EXCEPT !.step = "insertTranslations",
                                    !.effects = @ \cup {"post"}]
            /\ hist' = [hist EXCEPT !.rolledSince = @ \ {CurrentPost.ID}]
       ELSE /\ proc' = [proc EXCEPT !.step = "catch", !.error = "insert failed"]
            /\ UNCHANGED <<db, hist>>
    /\ ret' = NoRet
    /\ UNCHANGED <<dbSeq, directus_files, migration_batch, migration_data,
                   urlToUuidCache, rejects,
                   reader, conv, server>>

\* a variant of step 6 that writes nothing
InsertPostTranslationsNothing(rows, postId) == rows

\* Step 6: INSERT INTO post_translations ... ON CONFLICT (post_id,
\* languages_code) DO UPDATE
InsertPostTranslations(rows, postId) ==
    {r \in rows : ~(r.post_id = postId /\ r.languages_code = "vi-VN")}
    \cup {[post_id |-> postId, languages_code |-> "vi-VN"]}

PostInsertTranslations ==
    /\ proc.pc = "posts" /\ proc.step = "insertTranslations"
    /\ IF /\ ~Rejected("post_translations", parseInt(CurrentPost.ID))
          /\ \E r \in db.post : r.id = parseInt(CurrentPost.ID)
       THEN /\ db' = [db EXCEPT !.post_translations =
                 InsertPostTranslations(@, parseInt(CurrentPost.ID))]
            /\ proc' = [proc EXCEPT !.step = "track",
                                    !.effects = @ \cup {"post_translations"}]
       ELSE /\ proc' = [proc EXCEPT !.step = "catch", !.error = "insert failed"]
            /\ UNCHANGED db
    /\ ret' = NoRet
    /\ UNCHANGED <<dbSeq, directus_files, migration_batch, migration_data,
                   urlToUuidCache, rejects, hist,
                   reader, conv, server>>

\* await trackMigration(batchId, 'post', oldId, postId, 'success'); return
PostTrackSuccess ==
    /\ proc.pc = "posts" /\ proc.step = "track"
    /\ migration_data' =
         trackMigration(migration_data, proc.batchId, "post", CurrentPost.ID,
                        NewIdOfString(CurrentPost.ID), "success", NULL)
    /\ ret' = PostReturn("success", proc.effects \cup {"track"})
    /\ hist' = [hist EXCEPT !.prevStatus[CurrentPost.ID] = "success"]
    /\ proc' = [Advance(proc) EXCEPT !.effects = {}, !.thumbnailUuid = NULL,
                                     !.mIdx = 0, !.hadRows = FALSE]
    /\ UNCHANGED <<db, dbSeq, directus_files, migration_batch,
                   urlToUuidCache, rejects,
                   reader, conv, server>>

\* a variant in which the error of a post leaves the loop of migrateWpPosts
PostTrackFailedStopsRun ==
    /\ proc.pc = "posts" /\ proc.step = "catch"
    /\ migration_data' =
         trackMigration(migration_data, proc.batchId, "post", CurrentPost.ID,
                        NULL, "failed", proc.error)
    /\ ret' = PostReturn("failed", proc.effects \cup {"track"})
    /\ hist' = [hist EXCEPT !.prevStatus[CurrentPost.ID] = "failed"]
    /\ proc' = [proc EXCEPT !.pc = "failed", !.idx = 0, !.step = "none"]
    /\ UNCHANGED <<db, dbSeq, directus_files, migration_batch,
                   urlToUuidCache, rejects,
                   reader, conv, server>>

\* catch (error): trackMigration(..., null, 'failed', ..., error.message); return
PostTrackFailed ==
    /\ proc.pc = "posts" /\ proc.step = "catch"
    /\ migration_data' =
         trackMigration(migration_data, proc.batchId, "post", CurrentPost.ID,
                        NULL, "failed", proc.error)
    /\ ret' = PostReturn("failed", proc.effects \cup {"track"})
    /\ hist' = [hist EXCEPT !.prevStatus[CurrentPost.ID] = "failed"]
    /\ proc' = [Advance(proc) EXCEPT !.error = NULL, !.effects = {},
                                     !.thumbnailUuid = NULL, !.mIdx = 0,
                                     !.hadRows = FALSE]
    /\ UNCHANGED <<db, dbSeq, directus_files, migration_batch,
                   urlToUuidCache, rejects,
                   reader, conv, server>>

\* one iteration of the loop of migratePostTags
MigratePostTag ==
    /\ proc.pc = "postTags"
    /\ LET pt == PostTagsFile[proc.idx]
           oldId == PostTagOldId(pt)
           newRowId == dbSeq.post_tag + 1
       IN IF pt.post_id = 0 \/ pt.tag_id = 0
             \/ isAlreadyMigrated(migration_data, "post_tag", oldId)
          THEN UNCHANGED <<db, dbSeq, migration_data>>
          ELSE IF /\ ~Rejected("post_tag", pt.post_id)
                  /\ \E r \in db.post : r.id = pt.post_id
                  /\ \E r \in db.tag : r.id = pt.tag_id
          THEN /\ db' = [db EXCEPT !.post_tag =
                            @ \cup {[id |-> newRowId, post_id |-> pt.post_id,
                                     tag_id |-> pt.tag_id]}]
               /\ dbSeq' = [dbSeq EXCEPT !.post_tag = newRowId]
               /\ migration_data' =
                    trackMigration(migration_data, proc.batchId,
                        "post_tag", oldId, NewIdOfNumber(newRowId),
                        "success", NULL)
          ELSE /\ migration_data' =
                    trackMigration(migration_data, proc.batchId,
                        "post_tag", oldId, NULL, "failed", "insert failed")
               /\ UNCHANGED <<db, dbSeq>>
    /\ proc' = Advance(proc)
    /\ ret' = NoRet
    /\ UNCHANGED <<directus_files, migration_batch, urlToUuidCache, hist,
                   rejects,
                   reader, conv, server>>

\* the process ends: its cache is gone
EndProcess ==
    /\ proc' = ProcIdle
    /\ urlToUuidCache' = EmptyCache
    /\ hist' = [hist EXCEPT !.importLog = EmptyLog]

\* await completeBatch(batchId, 'completed'); the process ends
CompleteRun ==
    /\ proc.pc = "complete"
    /\ migration_batch' = completeBatch(migration_batch, proc.batchId,
                                        "completed", NULL)
    /\ EndProcess
    /\ ret' = RunEvent("returned", proc.batchId, NULL, "none", proc.finished)
    /\ UNCHANGED <<db, dbSeq, directus_files, migration_data, rejects,
                   reader, conv, server>>

\* catch (error): completeBatch(batchId, 'failed', error.message); throw
FailRun ==
    /\ proc.pc = "failed"
    /\ migration_batch' = completeBatch(migration_batch, proc.batchId,
                                        "failed", proc.error)
    /\ EndProcess
    /\ ret' = RunEvent("thrown", proc.batchId, proc.error,
                       IF proc.templates THEN "none" ELSE "templates",
                       proc.finished)
    /\ UNCHANGED <<db, dbSeq, directus_files, migration_data, rejects,
                   reader, conv, server>>

\* the process is terminated (POST /api/stop: migrationProcess.kill())
KillRun ==
    /\ proc.pc # "idle"
    /\ hist.nCommands < MaxCommands
    /\ proc' = ProcIdle
    /\ urlToUuidCache' = EmptyCache
    /\ hist' = [hist EXCEPT !.importLog = EmptyLog, !.nCommands = @ + 1]
    /\ ret' = NoRet
    /\ UNCHANGED <<db, dbSeq, directus_files, migration_batch, migration_data,
                   rejects,
                   reader, conv, server>>

(***************************************************************************)
(* Batch rollback: rollbackBatch of the CLI ("cli") and the handler of     *)
(* POST /api/rollback/:batchId ("api")                                     *)
(***************************************************************************)
\* a rollback that only knows the post tables
deleteOrderPostsOnly == <<"post_translations", "post_tag", "post">>

\* const deleteOrder = [...]
deleteOrder == <<"post_translations", "post_tag", "post", "tag_translations",
                 "tag", "collection_translations", "collection">>

BatchRow(batchId) == CHOOSE b \in migration_batch : b.id = batchId

\* SELECT id FROM migration_batch WHERE status = 'completed'
\* ORDER BY id DESC LIMIT 1   (0: no row)
LastCompletedBatch ==
    IF \E b \in migration_batch : b.status = "completed"
    THEN CHOOSE i \in {b.id : b \in migration_batch} :
           /\ BatchRow(i).status = "completed"
           /\ \A b \in migration_batch : b.status = "completed" => b.id <= i
    ELSE 0

\* a CLI that rolls back a batch of any status
RollbackAllowedAnyStatus(kind, status) == TRUE

\* the CLI returns unless the batch is completed; the API handler has no test
RollbackAllowed(kind, status) == kind = "api" \/ status = "completed"

\* SELECT table_name, new_id FROM migration_data WHERE batch_id = $1 AND
\* status = 'success' [AND new_id IS NOT NULL], grouped by table,
\* ids.map(id => parseInt(id))
ItemsByTable(kind, md, batchId) ==
    [t \in Tables |->
        {parseInt(r.new_id) :
            r \in {q \in md : /\ q.batch_id = batchId
                              /\ q.status = "success"
                              /\ q.table_name = t
                              /\ (kind = "api" => q.new_id # NULL)}}]

RECURSIVE DeleteLoop(_, _, _, _, _)
RECURSIVE DeleteLoopAbortOnError(_, _, _, _, _)
\* a variant whose first failing DELETE ends the loop
DeleteLoopAbortOnError(order, i, items, failing, acc) ==
    IF i > Len(order) THEN acc
    ELSE IF items[order[i]] = {}
    THEN DeleteLoopAbortOnError(order, i + 1, items, failing, acc)
    ELSE IF order[i] \in failing \/ NaN \in items[order[i]]
    THEN [acc EXCEPT !.errors = @ \cup {order[i]}]
    ELSE DeleteLoopAbortOnError(order, i + 1, items, failing,
                    [acc EXCEPT !.db = DeleteRows(@, order[i], items[order[i]])])

\* for (const tableName of deleteOrder): skip a table without items, else
\* DELETE FROM ${tableName} WHERE id = ANY($1::int[]) inside try/catch;
\* failing = the tables whose DELETE statement raises an error.
\* Result: the target database and the tables whose delete failed.
DeleteLoop(order, i, items, failing, acc) ==
    IF i > Len(order) THEN acc
    ELSE IF items[order[i]] = {}
    THEN DeleteLoop(order, i + 1, items, failing, acc)
    ELSE IF order[i] \in failing \/ NaN \in items[order[i]]
    THEN DeleteLoop(order, i + 1, items, failing,
                    [acc EXCEPT !.errors = @ \cup {order[i]}])
    ELSE DeleteLoop(order, i + 1, items, failing,
                    [acc EXCEPT !.db = DeleteRows(@, order[i], items[order[i]])])

RollbackEvent(result, kind, batchId, status, items, errors) ==
    [op |-> "rollback", result |-> result, kind |-> kind,
     batchId |-> batchId, startStatus |-> status,
     itemsByTable |-> items, errors |-> errors]

\* a rollback has acted: earlier returns of the post migrator no longer
\* count, and the posts whose rows it deleted are remembered
AfterRollback(h, d) ==
    [h EXCEPT !.prevStatus = [p \in PostIds |-> "none"],
              !.nCommands = @ + 1,
              !.rolledSince = @ \cup
                  {p \in PostIds :
                      /\ \E r \in db.post : r.id = parseInt(p)
                      /\ ~\E r \in d.post : r.id = parseInt(p)}]

\* UPDATE migration_batch SET status = 'rolled_back' WHERE id = $1
MarkBatchRolledBack(mb, batchId) ==
    {IF b.id = batchId THEN [b EXCEPT !.status = "rolled_back"] ELSE b
     : b \in mb}

\* UPDATE migration_data SET status = 'rolled_back' WHERE batch_id = $1
MarkDataRolledBack(md, batchId) ==
    {IF r.batch_id = batchId THEN [r EXCEPT !.status = "rolled_back"] ELSE r
     : r \in md}

\* the DELETE statements that raise an error: none, or the one on post
\* (rows outside the migration still reference a post of the batch)
FailingChoices == { {}, {"post"} }

\* a rollback request from start to return: batch lookup, the status test,
\* the items query, the delete loop, the two marking updates
\* (requested = 0: CLI without a batch id, the last completed batch)
Rollback ==
    \E kind \in {"cli", "api"},
       requested \in {0} \cup {b.id : b \in migration_batch},
       failing \in FailingChoices :
        /\ hist.nCommands < MaxCommands
        /\ requested = 0 => kind = "cli"
        /\ LET batchId == IF requested = 0 THEN LastCompletedBatch
                          ELSE requested
               status == IF batchId = 0 THEN "none"
                         ELSE BatchRow(batchId).status
               items == ItemsByTable(kind, migration_data, batchId)
               done == DeleteLoop(deleteOrder, 1, items, failing,
                                  [db |-> db, errors |-> {}])
           IN IF batchId # 0 /\ RollbackAllowed(kind, status)
              THEN /\ failing = {} \/ \E t \in failing : items[t] # {}
                   /\ db' = done.db
                   /\ migration_batch' =
                        MarkBatchRolledBack(migration_batch, batchId)
                   /\ migration_data' =
                        MarkDataRolledBack(migration_data, batchId)
                   /\ hist' = AfterRollback(hist, done.db)
                   /\ ret' = RollbackEvent("done", kind, batchId, status,
                                           items, done.errors)
              ELSE /\ failing = {}
                   /\ ret' = RollbackEvent("refused", kind, batchId, status,
                                           items, {})
                   /\ hist' = [hist EXCEPT !.nCommands = @ + 1]
                   /\ UNCHANGED <<db, migration_batch, migration_data>>
        /\ UNCHANGED <<dbSeq, directus_files, proc, urlToUuidCache, rejects,
                   reader, conv, server>>

Next ==
    \/ StartRun
    \/ MigrateTag
    \/ MigrateTagTranslation
    \/ CategoriesConfigError
    \/ MigrateCategory
    \/ MigrateCategoryTranslation
    \/ PostCheck
    \/ PostImportMedia
    \/ PostInsertPost
    \/ PostInsertTranslations
    \/ PostTrackSuccess
    \/ PostTrackFailed
    \/ MigratePostTag
    \/ CompleteRun
    \/ FailRun
    \/ KillRun
    \/ Rollback

Spec == Init /\ [][Next]_vars

(***************************************************************************)
(* SeededSpec: the same commands against a target database that already    *)
(* holds rows with the ids of the WordPress export (rows made in Directus,  *)
(* or left by a run that was killed before it tracked them) and an empty    *)
(* tracking store                                                          *)
(***************************************************************************)
\* the rows the target tables hold before the first batch
SeedRows ==
    [t \in Tables |->
        CASE t = "post" -> {[id |-> 1, collection |-> 0, thumbnail |-> "seed"]}
          [] t = "tag" -> {[id |-> 1]}
          [] t = "collection" -> {[id |-> 1]}
          [] OTHER -> {}]

SeededInit ==
    /\ db = SeedRows
    /\ dbSeq = [t \in {"tag_translations", "collection_translations", "post_tag"} |-> 0]
    /\ directus_files = {}
    /\ migration_batch = {}
    /\ migration_data = {}
    /\ proc = ProcIdle
    /\ urlToUuidCache = [u \in Urls |-> NULL]
    /\ ret = NoRet
    /\ hist = HistInit
    /\ rejects \in RejectChoices
    /\ reader = ReaderOff
    /\ conv = ConvOff
    /\ server = ServerOff

SeededSpec == SeededInit /\ [][Next]_vars

(***************************************************************************)
(* LiveSpec: Spec with a migration process that keeps taking steps while   *)
(* it is alive.  Commands (migrate, rollback) and the termination of the   *)
(* process (POST /api/stop, a signal) come from outside and need not       *)
(* happen.                                                                 *)
(***************************************************************************)
\* the steps the migration process takes by itself
ProcessStep ==
    \/ MigrateTag
    \/ MigrateTagTranslation
    \/ CategoriesConfigError
    \/ MigrateCategory
    \/ MigrateCategoryTranslation
    \/ PostCheck
    \/ PostImportMedia
    \/ PostInsertPost
    \/ PostInsertTranslations
    \/ PostTrackSuccess
    \/ PostTrackFailed
    \/ MigratePostTag
    \/ CompleteRun
    \/ FailRun

LiveSpec == Init /\ [][Next]_vars /\ WF_vars(ProcessStep)

(***************************************************************************)
(* LoopSpec: one call of migrateWpPosts or of migrateTagTranslations from  *)
(* its first statement to its return, with the counters and the progress   *)
(* lines of the loop                                                       *)
(***************************************************************************)
MaxPosts == 3     \* LoopSpec: posts the reader yields
MaxChunk == 3     \* LoopSpec: largest CONFIG.BATCH_SIZE

\* a published post of wp_posts.csv whose content refers to one image
StreamPost(id) == [ID |-> id, post_name |-> "p" \o id, media |-> <<URL1>>]

\* catch (error): trackMigration(batchId, 'post', oldId, null, 'failed', ...);
\* return { status: 'failed' }
PostFailed(s, batchId, post) ==
    [s EXCEPT !.md = trackMigration(@, batchId, "post", post.ID, NULL,
                                    "failed", "insert failed"),
              !.status = "failed"]

\* importMediaUrl(batchId, url) from call to return; ok: the answer of
\* importFileToDirectus, s.uuid: the value returned, s.imports: the calls
\* of importFileToDirectus so far
importMediaUrl(s, batchId, url, ok) ==
    LET decision == ImportDecision(s.cache, s.md, url)
        existingUuid == getMigratedId(s.md, "directus_files", url)
        newUuid == Uuid(Cardinality(s.files) + 1)
    IN CASE decision = "cache" -> [s EXCEPT !.uuid = s.cache[url]]
         [] decision = "tracked" ->
              [s EXCEPT !.cache[url] = existingUuid, !.uuid = existingUuid]
         [] decision = "import" ->
              IF ok
              THEN [s EXCEPT !.files = @ \cup {newUuid},
                             !.md = trackMigration(@, batchId, "directus_files",
                                        url, NewIdOfString(newUuid),
                                        "success", NULL),
                             !.cache[url] = newUuid,
                             !.uuid = newUuid,
                             !.imports = @ + 1]
              ELSE [s EXCEPT !.md = trackMigration(@, batchId, "directus_files",
                                        url, NULL, "failed", "Import failed"),
                             !.uuid = NULL,
                             !.imports = @ + 1]

\* migrateSingleWpPost(batchId, post, postCategoryMapping) from call to
\* return: the skip test, the media import, the two inserts, the tracking
\* record; s.status: the status returned
migrateSingleWpPost(s, batchId, post, ok) ==
    IF isAlreadyMigrated(s.md, "post", post.ID)
    THEN [s EXCEPT !.status = "skipped"]
    ELSE LET m == importMediaUrl(s, batchId, post.media[1], ok)
             id == parseInt(post.ID)
             withPost == [m EXCEPT !.db.post =
                            UpsertById(@, [id |-> id, thumbnail |-> m.uuid,
                                           collection |-> CollectionOf(post, m.db)])]
         IN IF Rejected("post", id) THEN PostFailed(m, batchId, post)
            ELSE IF Rejected("post_translations", id)
            THEN PostFailed(withPost, batchId, post)
            ELSE [withPost EXCEPT
                    !.db.post_translations = InsertPostTranslations(@, id),
                    !.md = trackMigration(@, batchId, "post", post.ID,
                               NewIdOfString(post.ID), "success", NULL),
                    !.status = "success"]

\* the counters after a call returned, totalProcessed++, log.progress(...)
CountPost(s, id) ==
    LET c == [s EXCEPT !.success = IF s.status = "success" THEN @ + 1 ELSE @,
                       !.skipped = IF s.status = "skipped" THEN @ + 1 ELSE @,
                       !.failed = IF s.status \notin {"success", "skipped"}
                                  THEN @ + 1 ELSE @,
                       !.processed = @ + 1,
                       !.calls = Append(@, id)]
    IN [c EXCEPT !.progress =
            Append(@, [processed |-> c.processed, success |-> c.success,
                       skipped |-> c.skipped, failed |-> c.failed])]

\* for (let i = 0; i < currentBatch.length; i++) { ... }; currentBatch = []
RECURSIVE ProcessBatch(_, _, _, _)
ProcessBatch(s, batchId, i, ok) ==
    IF i > Len(s.currentBatch) THEN [s EXCEPT !.currentBatch = <<>>]
    ELSE ProcessBatch(
            CountPost(migrateSingleWpPost(s, batchId, s.currentBatch[i], ok),
                      s.currentBatch[i].ID),
            batchId, i + 1, ok)

\* a chunk that is processed only when it is full
FlushNowFullChunkOnly(length, BATCH_SIZE, totalProcessed, totalPosts) ==
    length >= BATCH_SIZE

\* currentBatch.length >= BATCH_SIZE ||
\* totalProcessed + currentBatch.length >= totalPosts
FlushNow(length, BATCH_SIZE, totalProcessed, totalPosts) ==
    length >= BATCH_SIZE \/ totalProcessed + length >= totalPosts

\* for await (const post of readWpPostsCSV(...)) { currentBatch.push(post);
\* if (...) { process the chunk } }
RECURSIVE ReadPosts(_, _, _, _, _, _)
ReadPosts(s, stream, pos, BATCH_SIZE, batchId, ok) ==
    IF pos > Len(stream) THEN s
    ELSE LET pushed == [s EXCEPT !.currentBatch = Append(@, stream[pos])]
         IN IF FlushNow(Len(pushed.currentBatch), BATCH_SIZE,
                        pushed.processed, Len(stream))
            THEN ReadPosts(ProcessBatch(pushed, batchId, 1, ok), stream,
                           pos + 1, BATCH_SIZE, batchId, ok)
            ELSE ReadPosts(pushed, stream, pos + 1, BATCH_SIZE, batchId, ok)

\* migrateWpPosts(batchId): the counting pass (totalPosts = the length of
\* the stream; 0: return), then the chunked pass
migrateWpPosts(s, stream, BATCH_SIZE, batchId, ok) ==
    IF Len(stream) = 0 THEN s
    ELSE ReadPosts(s, stream, 1, BATCH_SIZE, batchId, ok)

\* migrateTagTranslations(batchId): one pass over the tags.  The INSERT ...
\* ON CONFLICT DO NOTHING RETURNING id takes the next value of the id
\* sequence; when a row with that id exists it inserts nothing and returns
\* no row, and the loop then counts the tag in no counter.
RECURSIVE migrateTagTranslations(_, _, _, _)
migrateTagTranslations(s, tags, i, batchId) ==
    IF i > Len(tags) THEN s
    ELSE LET tag == tags[i]
             oldId == TagTranslationOldId(tag.tag_id)
             newRowId == s.seq + 1
             after ==
               IF isAlreadyMigrated(s.md, "tag_translations", oldId)
               THEN [s EXCEPT !.skipped = @ + 1]
               ELSE IF \/ Rejected("tag_translations", tag.tag_id)
                       \/ ~\E r \in s.db.tag : r.id = tag.tag_id
               THEN [s EXCEPT !.failed = @ + 1,
                              !.md = trackMigration(@, batchId,
                                         "tag_translations", oldId, NULL,
                                         "failed", "insert failed")]
               ELSE IF \E r \in s.db.tag_translations : r.id = newRowId
               THEN [s EXCEPT !.seq = newRowId]
               ELSE [s EXCEPT !.seq = newRowId,
                              !.db.tag_translations =
                                  @ \cup {[id |-> newRowId,
                                           tag_id |-> tag.tag_id]},
                              !.md = trackMigration(@, batchId,
                                         "tag_translations", oldId,
                                         NewIdOfNumber(newRowId),
                                         "success", NULL),
                              !.success = @ + 1]
             counted == [after EXCEPT !.processed = @ + 1]
         IN migrateTagTranslations(
               [counted EXCEPT !.progress =
                   Append(@, [processed |-> counted.processed,
                              success |-> counted.success,
                              skipped |-> counted.skipped,
                              failed |-> counted.failed])],
               tags, i + 1, batchId)

\* the stores and the locals of a migrator at its first statement
LoopStart ==
    [db |-> db, md |-> migration_data, files |-> directus_files,
     cache |-> urlToUuidCache, seq |-> dbSeq.tag_translations,
     currentBatch |-> <<>>, processed |-> 0, success |-> 0, skipped |-> 0,
     failed |-> 0, calls |-> <<>>, progress |-> <<>>, status |-> "none",
     uuid |-> NULL, imports |-> 0]

\* what the migrator logged: the progress lines and the final counters
LoopReturn(op, s) ==
    [op |-> op, calls |-> s.calls, progress |-> s.progress,
     success |-> s.success, skipped |-> s.skipped, failed |-> s.failed,
     processed |-> s.processed]

RunMigrateWpPosts ==
    /\ proc.pc = "migrateWpPosts"
    /\ LET s == migrateWpPosts(LoopStart, proc.stream, proc.BATCH_SIZE,
                               proc.batchId, proc.ok)
       IN /\ db' = s.db
          /\ migration_data' = s.md
          /\ directus_files' = s.files
          /\ urlToUuidCache' = s.cache
          /\ ret' = LoopReturn("migrateWpPosts", s)
    /\ proc' = [proc EXCEPT !.pc = "returned"]
    /\ UNCHANGED <<dbSeq, migration_batch, rejects, hist, reader, conv, server>>

RunMigrateTagTranslations ==
    /\ proc.pc = "migrateTagTranslations"
    /\ LET s == migrateTagTranslations(LoopStart, proc.tags, 1, proc.batchId)
       IN /\ db' = s.db
          /\ migration_data' = s.md
          /\ dbSeq' = [dbSeq EXCEPT !.tag_translations = s.seq]
          /\ ret' = LoopReturn("migrateTagTranslations", s)
    /\ proc' = [proc EXCEPT !.pc = "returned"]
    /\ UNCHANGED <<directus_files, urlToUuidCache, migration_batch, rejects,
                   hist, reader, conv, server>>

\* one call of importMediaUrl(batchId, url) by itself
RunImportMediaUrl ==
    /\ proc.pc = "importMediaUrl"
    /\ LET s == importMediaUrl(LoopStart, proc.batchId, proc.url, proc.ok)
       IN /\ migration_data' = s.md
          /\ directus_files' = s.files
          /\ urlToUuidCache' = s.cache
          /\ ret' = [op |-> "importMediaUrl", url |-> proc.url,
                     uuid |-> s.uuid, imports |-> s.imports]
    /\ proc' = [proc EXCEPT !.pc = "returned"]
    /\ UNCHANGED <<db, dbSeq, migration_batch, rejects, hist, reader, conv,
                   server>>

LoopNext ==
    \/ RunMigrateWpPosts
    \/ RunMigrateTagTranslations
    \/ RunImportMediaUrl

\* the posts the reader yields: every sequence of at most MaxPosts posts
\* with the ids 1 and 2 (an id may come twice in the file)
Streams ==
    UNION {[1..n -> {StreamPost("1"), StreamPost("2")}] : n \in 0..MaxPosts}

\* directus_tags.json
TagLists == { <<>>, <<[tag_id |-> 1]>>, <<[tag_id |-> 1], [tag_id |-> 2]>>,
              <<[tag_id |-> 2], [tag_id |-> 1]>> }

\* the migrator that runs and its inputs
LoopInputs ==
    {[pc |-> "migrateWpPosts", stream |-> st, BATCH_SIZE |-> b, ok |-> ok]
        : st \in Streams, b \in 1..MaxChunk, ok \in BOOLEAN}
    \cup {[pc |-> "migrateTagTranslations", tags |-> tags] : tags \in TagLists}
    \cup {[pc |-> "importMediaUrl", url |-> URL1, ok |-> ok, cached |-> c]
             : ok \in BOOLEAN, c \in BOOLEAN}

\* the stores before the migrator starts, the tags being there already:
\* a first run; a run after a completed batch that migrated post 2 with
\* its image and the translation of tag 2; a first run against a
\* tag_translations table whose row 1 was loaded with its id while the id
\* sequence was not advanced; a first run in which the import of the image
\* has failed once
LoopStores ==
    LET tags == {[id |-> 1], [id |-> 2]}
        empty == [t \in Tables |-> {}]
        one == createBatch({})
        two == createBatch(completeBatch(one, 1, "completed", NULL))
    IN { [db |-> [empty EXCEPT !.tag = tags], seq |-> 0, md |-> {},
          files |-> {}, mb |-> one, batchId |-> 1],
         [db |-> [empty EXCEPT !.tag = tags], seq |-> 0,
          md |-> trackMigration({}, 1, "directus_files", URL1, NULL,
                                "failed", "Import failed"),
          files |-> {}, mb |-> one, batchId |-> 1],
         [db |-> [empty EXCEPT
                    !.tag = tags,
                    !.tag_translations = {[id |-> 1, tag_id |-> 2]},
                    !.post = {[id |-> 2, thumbnail |-> "f1", collection |-> 0]},
                    !.post_translations =
                        {[post_id |-> 2, languages_code |-> "vi-VN"]}],
          seq |-> 1,
          md |-> trackMigration(
                   trackMigration(
                     trackMigration({}, 1, "tag_translations", "2_vi-VN", "1",
                                    "success", NULL),
                     1, "directus_files", URL1, "f1", "success", NULL),
                   1, "post", "2", "2", "success", NULL),
          files |-> {"f1"}, mb |-> two, batchId |-> 2],
         [db |-> [empty EXCEPT !.tag = tags,
                               !.tag_translations = {[id |-> 1, tag_id |-> 1]}],
          seq |-> 0, md |-> {}, files |-> {}, mb |-> one, batchId |-> 1] }

LoopInit ==
    /\ \E st \in LoopStores, in \in LoopInputs :
          /\ db = st.db
          /\ dbSeq = [t \in {"tag_translations", "collection_translations",
                             "post_tag"} |->
                         IF t = "tag_translations" THEN st.seq ELSE 0]
          /\ migration_data = st.md
          /\ migration_batch = st.mb
          /\ proc = in @@ [batchId |-> st.batchId]
          /\ directus_files = st.files
          \* the cache holds what an earlier call of the process put there
          /\ IF in.pc = "importMediaUrl" /\ in.cached
             THEN /\ getMigratedId(st.md, "directus_files", URL1) # NULL
                  /\ urlToUuidCache =
                        [u \in Urls |->
                            getMigratedId(st.md, "directus_files", u)]
             ELSE urlToUuidCache = EmptyCache
    /\ ret = NoRet
    /\ hist = HistInit
    /\ rejects \in RejectChoices
    /\ reader = ReaderOff
    /\ conv = ConvOff
    /\ server = ServerOff

LoopSpec == LoopInit /\ [][LoopNext]_vars

(***************************************************************************)
(* RollbackSpec: rollback requests against the stores earlier runs left    *)
(***************************************************************************)
\* the tracking records and target rows of batch 1 after its run got as far
\* as `upTo`: "tags" (migrateCategories threw, the batch is failed) or
\* "posts" (tag 1 and post 1 are migrated, the import of the image failed)
BatchOneData(upTo) ==
    LET tags == trackMigration(
                  trackMigration({}, 1, "tag", "1", "1", "success", NULL),
                  1, "tag_translations", "1_vi-VN", "1", "success", NULL)
    IN IF upTo = "tags" THEN tags
       ELSE trackMigration(
              trackMigration(tags, 1, "directus_files", URL1, NULL,
                             "failed", "Import failed"),
              1, "post", "1", "1", "success", NULL)

BatchOneRows(upTo) ==
    [t \in Tables |->
        CASE t = "tag" -> {[id |-> 1]}
          [] t = "tag_translations" -> {[id |-> 1, tag_id |-> 1]}
          [] t = "post" /\ upTo = "posts" ->
               {[id |-> 1, thumbnail |-> NULL, collection |-> 0]}
          [] t = "post_translations" /\ upTo = "posts" ->
               {[post_id |-> 1, languages_code |-> "vi-VN"]}
          [] OTHER -> {}]

\* what a run left: completed; running (its process was killed after post
\* 1); failed (migrateCategories threw); no batch at all
RollbackStores ==
    { [mb |-> completeBatch(createBatch({}), 1, "completed", NULL),
       md |-> BatchOneData("posts"), db |-> BatchOneRows("posts"), seq |-> 1],
      [mb |-> createBatch({}),
       md |-> BatchOneData("posts"), db |-> BatchOneRows("posts"), seq |-> 1],
      [mb |-> completeBatch(createBatch({}), 1, "failed",
                            "CATEGORY_TEMPLATE_ID not configured"),
       md |-> BatchOneData("tags"), db |-> BatchOneRows("tags"), seq |-> 1],
      [mb |-> {}, md |-> {}, db |-> [t \in Tables |-> {}], seq |-> 0] }

\* rollbackBatch(n) of the CLI for a batch id that migration_batch does not
\* hold: log.error(`Batch #${targetBatchId} not found`); return
RollbackMissingBatch ==
    /\ hist.nCommands < MaxCommands
    /\ LET batchId == Cardinality(migration_batch) + 1
       IN ret' = RollbackEvent("refused", "cli", batchId, "none",
                               ItemsByTable("cli", migration_data, batchId), {})
    /\ hist' = [hist EXCEPT !.nCommands = @ + 1]
    /\ UNCHANGED <<db, dbSeq, directus_files, migration_batch, migration_data,
                   proc, urlToUuidCache, rejects, reader, conv, server>>

RollbackNext ==
    \/ Rollback
    \/ RollbackMissingBatch

RollbackInit ==
    /\ \E st \in RollbackStores :
          /\ db = st.db
          /\ dbSeq = [t \in {"tag_translations", "collection_translations",
                             "post_tag"} |->
                         IF t = "tag_translations" THEN st.seq ELSE 0]
          /\ migration_data = st.md
          /\ migration_batch = st.mb
    /\ directus_files = {}
    /\ proc = ProcIdle
    /\ urlToUuidCache = EmptyCache
    /\ ret = NoRet
    /\ hist = HistInit
    /\ rejects \in RejectChoices
    /\ reader = ReaderOff
    /\ conv = ConvOff
    /\ server = ServerOff

RollbackSpec == RollbackInit /\ [][RollbackNext]_vars

(***************************************************************************)
(* CleanSpec: the clean command (cleanMigratedData) among rollback         *)
(* requests, against the stores earlier runs left                          *)
(***************************************************************************)
\* const cleanupOrder = [...]: the table, and either the column that refers
\* to the parent table or the table's own tracking records ("id")
cleanupOrder ==
    << [table |-> "post_translations", fk |-> "post_id", parent |-> "post"],
       [table |-> "post_tag", fk |-> "post_id", parent |-> "post"],
       [table |-> "post", fk |-> "id", parent |-> "post"],
       [table |-> "tag_translations", fk |-> "tag_id", parent |-> "tag"],
       [table |-> "tag", fk |-> "id", parent |-> "tag"],
       [table |-> "collection_translations", fk |-> "collection_id",
        parent |-> "collection"],
       [table |-> "collection", fk |-> "id", parent |-> "collection"] >>

\* SELECT new_id FROM migration_data WHERE table_name = $1 AND
\* status = 'success';  rows.map(r => parseInt(r.new_id))
CleanIds(md, tableName) ==
    {parseInt(r.new_id) :
        r \in {q \in md : q.table_name = tableName /\ q.status = "success"}}

\* DELETE FROM ${item.table} WHERE ${item.fk} = ANY($1::int[])
DeleteByParent(d, item, ids) ==
    [d EXCEPT ![item.table] = {r \in @ : r[item.fk] \notin ids}]

\* for (const item of cleanupOrder) { try { ... } catch (err) { log.warn } }
\* failing = the tables whose DELETE statement raises an error
RECURSIVE CleanLoop(_, _, _, _)
CleanLoop(i, md, failing, acc) ==
    IF i > Len(cleanupOrder) THEN acc
    ELSE LET item == cleanupOrder[i]
             ids == CleanIds(md, item.parent)
         IN IF ids = {} THEN CleanLoop(i + 1, md, failing, acc)
            ELSE IF item.table \in failing \/ NaN \in ids
            THEN CleanLoop(i + 1, md, failing,
                           [acc EXCEPT !.errors = @ \cup {item.table}])
            ELSE CleanLoop(i + 1, md, failing,
                   [acc EXCEPT !.db =
                       IF item.fk = "id" THEN DeleteRows(@, item.table, ids)
                       ELSE DeleteByParent(@, item, ids)])

\* node migration_script.js clean: the delete loop, then DELETE FROM
\* migration_data and DELETE FROM migration_batch; the function returns
\* without raising whatever the deletes of the loop did
Clean ==
    \E failing \in FailingChoices :
        /\ hist.nCommands < MaxCommands
        /\ LET done == CleanLoop(1, migration_data, failing,
                                 [db |-> db, errors |-> {}])
           IN /\ failing = {} \/ \E t \in failing : CleanIds(migration_data, t) # {}
              /\ db' = done.db
              /\ ret' = [op |-> "clean", errors |-> done.errors,
                         ids |-> [t \in {"post", "tag", "collection"} |->
                                     CleanIds(migration_data, t)]]
        /\ migration_data' = {}
        /\ migration_batch' = {}
        /\ hist' = [hist EXCEPT !.nCommands = @ + 1]
        /\ UNCHANGED <<dbSeq, directus_files, proc, urlToUuidCache, rejects,
                       reader, conv, server>>

CleanNext ==
    \/ Clean
    \/ Rollback
    \/ RollbackMissingBatch

CleanSpec == RollbackInit /\ [][CleanNext]_vars

(***************************************************************************)
(* Properties                                                              *)
(***************************************************************************)
PostRowExists(d, id) == \E r \in d.post : r.id = id
PostTranslationExists(d, id) == \E r \in d.post_translations : r.post_id = id
TagRowExists(d, id) == \E r \in d.tag : r.id = id

\* a rollback of a completed batch holding success records for posts and
\* for a tag has just returned
RolledBackPostsAndTag ==
    /\ ret.op = "rollback" /\ ret.result = "done"
    /\ ret.startStatus = "completed"
    /\ ret.itemsByTable["post"] # {}
    /\ ret.itemsByTable["tag"] # {}

\* C1 as stated: whenever migrateSingleWpPost returns for a post it has
\* returned for before, with no rollback in between, it returns 'skipped'
\* and the invocation did no import and no write.
C1_SecondInvocationSkipped ==
    (ret.op = "migrateSingleWpPost" /\ ret.before # "none")
        => (ret.status = "skipped" /\ ret.effects = {})

\* C1 amended: when the previous invocation for the post returned 'success'
\* or 'skipped' and no rollback ran in between, the next invocation returns
\* 'skipped' and its whole execution leaves the target tables, the files
\* and the tracking records unchanged.
C1_SkippedAfterSuccess ==
    [][(ret'.op = "migrateSingleWpPost"
        /\ ret'.before \in {"success", "skipped"})
          => /\ ret'.status = "skipped"
             /\ ret'.effects = {}
             /\ UNCHANGED <<db, dbSeq, directus_files, migration_data>>]_vars

C1_Witness ==
    /\ ret.op = "migrateSingleWpPost"
    /\ ret.before = "success"
    /\ ret.status = "skipped"

\* C2: a ('post', P) record with status success exists only if the post
\* row P and its post_translations row exist, unless a rollback has deleted
\* them since; in every state, the states after a kill included.
C2_SuccessOnlyAfterRows ==
    \A r \in migration_data :
        (r.table_name = "post" /\ r.status = "success"
         /\ r.old_id \notin hist.rolledSince)
            => /\ PostRowExists(db, parseInt(r.new_id))
               /\ PostTranslationExists(db, parseInt(r.new_id))

\* the process was terminated after inserting the row of post 2 and before
\* its success record, while post 1 is recorded
C2_Witness ==
    /\ proc.pc = "idle"
    /\ hist.rolledSince = {}
    /\ \E r \in migration_data :
          r.table_name = "post" /\ r.status = "success" /\ r.old_id = "1"
    /\ PostRowExists(db, 2)
    /\ ~\E r \in migration_data : r.table_name = "post" /\ r.old_id = "2"

\* C3 as stated: within one process run importFileToDirectus is called at
\* most once per URL.
C3_AtMostOneImportCall ==
    \A u \in Urls : Len(hist.importLog[u]) <= 1

\* C3 amended: within one process run importFileToDirectus is called again
\* for a URL only after every earlier call for it failed, so at most one
\* call per URL succeeds and none follows a successful one.
C3_NoCallAfterSuccess ==
    \A u \in Urls :
        \A i \in 1..(Len(hist.importLog[u]) - 1) :
            hist.importLog[u][i] = "failed"

C3_Witness ==
    hist.importLog[URL1] = <<"failed", "ok">>

\* C4: once a URL was imported and tracked with success in some batch, no
\* later run calls importFileToDirectus for it, whatever runs and rollbacks
\* happened in between.
C4_NoReimportAcrossRuns ==
    ret.op = "importFileToDirectus"
        => (ret.importedBefore = 0 \/ ret.importedBefore = ret.batchId)

C6_BatchStatusMachine ==
    [][/\ \A b \in migration_batch :
            \E c \in migration_batch' :
               /\ c.id = b.id
               /\ \/ c.status = b.status
                  \/ <<b.status, c.status>> \in
                        { <<"running", "completed">>, <<"running", "failed">>,
                          <<"completed", "rolled_back">> }
       /\ \A c \in migration_batch' :
            (~\E b \in migration_batch : b.id = c.id) => c.status = "running"
       /\ (ret'.op = "rollback" /\ ret'.result = "done")
            => ret'.startStatus = "completed"]_vars

\* C7: a record is created pending, success or failed; success changes
\* only to rolled_back and only by a rollback; failed never changes to
\* rolled_back; success is never overwritten with failed or pending.
C7_RecordStateMachine ==
    [][/\ \A c \in migration_data' :
            (~\E r \in migration_data : r.id = c.id)
                => c.status \in {"pending", "success", "failed"}
       /\ \A r \in migration_data : \A c \in migration_data' :
            (c.id = r.id /\ c.status # r.status)
                => /\ r.status = "success" =>
                        (c.status = "rolled_back" /\ ret'.op = "rollback")
                   /\ r.status = "failed" => c.status # "rolled_back"]_vars

\* C8: the store holds exactly one row per written (table_name, old_id,
\* batch_id), carrying the new_id, status and error_message of the last
\* trackMigration call for that key, after every sequence of calls.
C8_OneRowPerKeyLastWriteWins ==
    /\ \A r, q \in migration_data : WriteKey(r) = WriteKey(q) => r = q
    /\ \A w \in hist.lastWrite :
          \E r \in migration_data :
             /\ WriteKey(r) = WriteKey(w)
             /\ r.new_id = w.new_id /\ r.status = w.status
             /\ r.error_message = w.error_message
    /\ Cardinality(migration_data) = Cardinality(hist.lastWrite)

\* an upsert has just hit an existing key, with other keys in the store
C8_Witness ==
    /\ ret.op = "trackMigration" /\ ret.updated
    /\ Cardinality(migration_data) = MaxStoreRows

\* C9: isAlreadyMigrated returns true iff some record of that entity type
\* and old id has status success, in whatever batch.
C9_TrueIffSuccessRecord ==
    ret.op = "isAlreadyMigrated"
        => (ret.value <=>
              \E r \in migration_data :
                 /\ r.table_name = ret.table_name /\ r.old_id = ret.old_id
                 /\ r.status = "success")

\* false although the entity has a failed and a rolled_back record
C9_Witness ==
    /\ ret.op = "isAlreadyMigrated" /\ ~ret.value
    /\ \E r, q \in migration_data :
          /\ r.table_name = ret.table_name /\ r.old_id = ret.old_id
          /\ q.table_name = ret.table_name /\ q.old_id = ret.old_id
          /\ r.status = "failed" /\ q.status = "rolled_back"

\* C10: getMigratedId returns the new_id of the most recently created
\* success record of that entity type and old id over all batches, and
\* null when there is none.
C10_LatestSuccessNewId ==
    ret.op = "getMigratedId"
        => IF \E r \in migration_data :
                 /\ r.table_name = ret.table_name /\ r.old_id = ret.old_id
                 /\ r.status = "success"
           THEN \E r \in migration_data :
                 /\ r.table_name = ret.table_name /\ r.old_id = ret.old_id
                 /\ r.status = "success"
                 /\ ret.value = r.new_id
                 /\ \A q \in migration_data :
                       (q.table_name = ret.table_name
                        /\ q.old_id = ret.old_id /\ q.status = "success")
                           => q.created_at <= r.created_at
           ELSE ret.value = NULL

\* two success records, the later created one in the earlier batch
C10_Witness ==
    /\ ret.op = "getMigratedId"
    /\ \E r, q \in migration_data :
          /\ r.table_name = ret.table_name /\ r.old_id = ret.old_id
          /\ q.table_name = ret.table_name /\ q.old_id = ret.old_id
          /\ r.status = "success" /\ q.status = "success"
          /\ r.batch_id < q.batch_id /\ q.created_at < r.created_at
          /\ r.new_id # q.new_id /\ r.new_id # NULL
          /\ ret.value = r.new_id

\* C11: when a migrator throws out of runMigration the batch is marked failed
\* with the exception's message and the exception is rethrown; a batch
\* becomes completed only by a run all of whose migrators returned.
C11_FailedWithMessageElseCompleted ==
    [][/\ (ret'.op = "runMigration" /\ ret'.outcome = "thrown")
            => /\ ret'.error # NULL
               /\ \E b \in migration_batch' :
                     /\ b.id = ret'.batchId
                     /\ b.status = "failed"
                     /\ b.error_message = ret'.error
       /\ \A b \in migration_batch' :
             (b.status = "completed"
              /\ \E a \in migration_batch :
                    a.id = b.id /\ a.status # "completed")
                => /\ ret'.op = "runMigration"
                   /\ ret'.outcome = "returned"
                   /\ ret'.batchId = b.id
                   /\ ret'.finished = PhaseOrder]_vars

\* a run whose third migrator threw after the first two had returned
C11_Witness ==
    /\ ret.op = "runMigration"
    /\ ret.outcome = "thrown"
    /\ ret.finished = <<"tags", "tagTranslations">>
    /\ \E b \in migration_batch :
          b.id = ret.batchId /\ b.status = "failed"
                             /\ b.error_message = ret.error

\* C12: a migrate run that lacks a required template identifier, author
\* identity or folder identifier aborts before any work begins: it creates
\* no batch and writes no row to the target store or the tracking store.
C12_AbortBeforeAnyWork ==
    (ret.op = "runMigration" /\ ret.missing # "none")
        => /\ ret.finished = <<>>
           /\ ~ \E b \in migration_batch : b.id = ret.batchId
           /\ ~ \E r \in migration_data : r.batch_id = ret.batchId

\* C13: in every run the migrators run strictly in the order tags, tag
\* translations, categories, category translations, posts, post-tag links,
\* each starting only after the previous one has finished: a post row is
\* inserted only after the tag and category migrators have finished, and a
\* post-tag link only after the post migrator has finished.
C13_MigratorOrder ==
    [][LET order == <<"tags", "tagTranslations", "categories",
                      "categoryTranslations", "posts", "postTags">>
           done == proc.finished
       IN /\ Len(proc'.finished) <= Len(order)
          /\ proc'.finished = SubSeq(order, 1, Len(proc'.finished))
          /\ proc'.pc \in {order[i] : i \in 1..Len(order)}
                => proc'.pc = order[Len(proc'.finished) + 1]
          /\ (\E r \in db'.post : ~PostRowExists(db, r.id))
                => /\ proc.pc = "posts"
                   /\ done = SubSeq(order, 1, 4)
          /\ (\E r \in db'.post_tag : r \notin db.post_tag)
                => /\ proc.pc = "postTags"
                   /\ done = SubSeq(order, 1, 5)]_vars

\* a run whose six migrators have finished in order and which inserted a
\* post and a post-tag link
C13_Witness ==
    /\ proc.pc = "complete"
    /\ proc.finished = <<"tags", "tagTranslations", "categories",
                         "categoryTranslations", "posts", "postTags">>
    /\ \E r, q \in migration_data :
          /\ r.batch_id = proc.batchId /\ q.batch_id = proc.batchId
          /\ r.table_name = "post" /\ r.status = "success"
          /\ q.table_name = "post_tag" /\ q.status = "success"
    /\ db.post # {} /\ db.post_tag # {}

\* C14: the post row and the post_translations row of a post are written as
\* one unit: for a post that had no rows before, after migrateSingleWpPost
\* returns success or failed the target store holds both rows or neither.
C14_PostAndTranslationBothOrNeither ==
    (/\ ret.op = "migrateSingleWpPost"
     /\ ret.status \in {"success", "failed"}
     /\ ~ret.hadRows)
        => (PostRowExists(db, parseInt(ret.postId))
               <=> PostTranslationExists(db, parseInt(ret.postId)))

\* C15: when the import call for a media URL fails, importMediaUrl returns
\* null without raising, a failed tracking record with the error message
\* exists for that URL in the current batch, and migrateSingleWpPost goes on
\* with the next URL or with the insert of the post instead of aborting.
C15_FailedImportDoesNotAbortPost ==
    (ret.op = "importFileToDirectus" /\ ~ret.ok)
        => /\ \E r \in migration_data :
                 /\ r.table_name = "directus_files"
                 /\ r.old_id = ret.url
                 /\ r.batch_id = ret.batchId
                 /\ r.status = "failed"
                 /\ r.new_id = NULL
                 /\ r.error_message # NULL
           /\ proc.pc = "posts"
           /\ proc.step \in {"media", "insertPost"}
           /\ proc.error = NULL
           /\ urlToUuidCache[ret.url] = NULL

\* the only URL of a post has just failed to import: the process is about
\* to insert the post without a thumbnail
C15_Witness ==
    /\ ret.op = "importFileToDirectus" /\ ~ret.ok
    /\ proc.step = "insertPost"
    /\ proc.thumbnailUuid = NULL
    /\ \E r \in migration_data :
          /\ r.table_name = "directus_files" /\ r.old_id = ret.url
          /\ r.batch_id = proc.batchId /\ r.status = "failed"

\* the step of the running process that handled one entity of its loop left
\* a failed record with a message for (tableName, oldId) in the batch and
\* moved on to the next entity or, after the last one, to the next migrator
FailedAndMovedOn(tableName, oldId) ==
    /\ \E r \in migration_data' :
          /\ r.table_name = tableName /\ r.old_id = oldId
          /\ r.batch_id = proc.batchId
          /\ r.status = "failed" /\ r.new_id = NULL
          /\ r.error_message # NULL
    /\ proc'.batchId = proc.batchId
    /\ proc'.error = NULL
    /\ IF proc.idx < PhaseLen(proc.pc)
       THEN proc'.pc = proc.pc /\ proc'.idx = proc.idx + 1
       ELSE proc'.pc \notin {proc.pc, "failed", "idle"}

\* C16: when the insert of an entity fails on a constraint, a failed
\* tracking record with the error message is written for the entity in the
\* current batch and the migrator continues with the next entity (tags,
\* categories and posts).
C16_InsertFailureRecordedAndSkipped ==
    [][/\ (/\ proc.pc = "tags" /\ proc'.pc \notin {"idle"}
           /\ proc' # proc
           /\ <<"tag", TagsFile[proc.idx].tag_id>> \in rejects
           /\ ~isAlreadyMigrated(migration_data, "tag",
                                 String(TagsFile[proc.idx].tag_id)))
             => FailedAndMovedOn("tag", String(TagsFile[proc.idx].tag_id))
       /\ (/\ proc.pc = "categories" /\ proc.templates
           /\ proc'.pc \notin {"idle"}
           /\ proc' # proc
           /\ <<"collection", CategoryFile[proc.idx].id>> \in rejects
           /\ ~isAlreadyMigrated(migration_data, "collection",
                                 String(CategoryFile[proc.idx].id)))
             => FailedAndMovedOn("collection",
                                 String(CategoryFile[proc.idx].id))
       /\ (/\ ret'.op = "migrateSingleWpPost" /\ ret'.status = "failed"
           /\ proc.pc = "posts")
             => FailedAndMovedOn("post", ret'.postId)]_vars

\* the first post failed on its insert and the second post of the same run
\* was migrated after it
C16_Witness ==
    /\ ret.op = "migrateSingleWpPost"
    /\ ret.postId = "2" /\ ret.status = "success"
    /\ \E r, q, t, c \in migration_data :
          /\ r.batch_id = proc.batchId /\ q.batch_id = proc.batchId
          /\ t.batch_id = proc.batchId /\ c.batch_id = proc.batchId
          /\ r.table_name = "post" /\ r.old_id = "1" /\ r.status = "failed"
          /\ q.table_name = "post" /\ q.old_id = "2" /\ q.status = "success"
          /\ t.table_name = "tag" /\ t.status = "failed"
          /\ c.table_name = "collection" /\ c.status = "failed"
    /\ PostRowExists(db, 2) /\ PostTranslationExists(db, 2)

\* C17: a delete failure for one table does not abort a rollback: every
\* later table of the delete order is still attempted, so the recorded
\* rows of each table whose delete did not fail are gone, the batch is
\* marked rolled back, and the failed tables are reported together.
C17_DeleteFailureDoesNotAbort ==
    (ret.op = "rollback" /\ ret.result = "done" /\ ret.errors # {})
        => LET order == <<"post_translations", "post_tag", "post",
                          "tag_translations", "tag",
                          "collection_translations", "collection">>
           IN /\ \A i \in 1..Len(order) :
                    (order[i] \notin ret.errors
                     /\ \E j \in 1..(i - 1) : order[j] \in ret.errors)
                       => \A id \in ret.itemsByTable[order[i]] :
                             ~\E r \in db[order[i]] : r.id = id
              /\ \A t \in ret.errors : ret.itemsByTable[t] # {}
              /\ BatchRow(ret.batchId).status = "rolled_back"
              /\ \A r \in migration_data :
                    r.batch_id = ret.batchId => r.status = "rolled_back"

\* the DELETE on post failed and the rows of the tables after it, recorded
\* in the batch, are gone
C17_Witness ==
    /\ ret.op = "rollback" /\ ret.result = "done"
    /\ ret.errors = {"post"}
    /\ ret.itemsByTable["tag"] # {}
    /\ ret.itemsByTable["tag_translations"] # {}
    /\ ret.itemsByTable["collection"] # {}
    /\ db.post # {}
    /\ db.tag = {} /\ db.tag_translations = {} /\ db.collection = {}

\* the entity type a migrator tracks its entities under
EntityTable(ph) ==
    CASE ph = "tags" -> "tag"
      [] ph = "tagTranslations" -> "tag_translations"
      [] ph = "categories" -> "collection"
      [] ph = "categoryTranslations" -> "collection_translations"
      [] ph = "posts" -> "post"
      [] ph = "postTags" -> "post_tag"

\* the old id of the i-th entity of a migrator
EntityOldId(ph, i) ==
    CASE ph = "tags" -> String(TagsFile[i].tag_id)
      [] ph = "tagTranslations" -> TagTranslationOldId(TagsFile[i].tag_id)
      [] ph = "categories" -> String(CategoryFile[i].id)
      [] ph = "categoryTranslations" ->
             CollectionTranslationOldId(CategoryFile[i])
      [] ph = "posts" -> WpPosts[i].ID
      [] ph = "postTags" -> PostTagOldId(PostTagsFile[i])

\* C18: whenever a migrator moves on from an entity that is not skipped as
\* already migrated, a tracking record for (entity type, old id) exists in
\* the current batch; for every entity type.
C18_ProcessedEntityIsTracked ==
    [][(/\ proc.pc \in {PhaseOrder[i] : i \in 1..Len(PhaseOrder)}
        /\ proc'.pc \notin {"idle", "failed"}
        /\ proc'.pc # proc.pc \/ proc'.idx # proc.idx
        /\ ~isAlreadyMigrated(migration_data, EntityTable(proc.pc),
                              EntityOldId(proc.pc, proc.idx)))
          => \E r \in migration_data' :
                /\ r.table_name = EntityTable(proc.pc)
                /\ r.old_id = EntityOldId(proc.pc, proc.idx)
                /\ r.batch_id = proc.batchId]_vars

\* the records of the file that pass the filter of the call, in file order
MatchingRecords ==
    LET Test(record) == MatchesFilter(record, reader.options)
    IN SelectSeq(reader.records, Test)

\* C19: for a well-formed file, readWpPostsCSV without a limit yields as
\* many records as the file holds records matching the filter, and a
\* matching record whose quoted field spans several lines is yielded as one
\* record.
C19_YieldsEveryMatchingRecord ==
    (reader.pc = "done" /\ reader.options.limit = 0
     /\ reader.malformedAt = 0)
        => /\ Len(reader.yielded) = Len(MatchingRecords)
           /\ \A i \in 1..Len(MatchingRecords) :
                 (\E k \in 1..Len(MatchingRecords[i].post_content) :
                     MatchingRecords[i].post_content[k] = Newline)
                    => \E j \in 1..Len(reader.yielded) :
                          reader.yielded[j] = MatchingRecords[i]

\* C20: with limit N > 0 readWpPostsCSV yields exactly the first min(N, M)
\* of the M matching records in file order and closes the read once N are
\* yielded; with N = 0 it yields all M.
C20_YieldsFirstNMatching ==
    (reader.pc = "done" /\ reader.malformedAt = 0)
        => LET N == reader.options.limit
               M == Len(MatchingRecords)
           IN IF N > 0
              THEN /\ reader.yielded =
                        SubSeq(MatchingRecords, 1, IF N < M THEN N ELSE M)
                   /\ M >= N => reader.closed
              ELSE reader.yielded = MatchingRecords

\* C21: a malformed record, whose column count never matches the header,
\* is skipped without raising and the reader still yields every well-formed
\* matching record of the file, wherever the malformed record stands.
C21_MalformedRowSkippedAlone ==
    (reader.pc = "done" /\ reader.options.limit = 0
     /\ reader.malformedAt > 0)
        => reader.yielded = MatchingRecords

\* C28: the reader tracks the open-quote state across physical lines: a first
\* line of a record with an odd number of double quotes, which opens a quoted
\* field without closing it, is never yielded on its own, whatever its column
\* count, but starts a continuation.
C28_OpenQuoteStartsContinuation ==
    [][(/\ reader.pc = "reading"
        /\ reader.next <= Len(reader.lines)
        /\ reader.headers # <<>>
        /\ ~reader.currentRecord
        /\ QuoteCount(reader.lines[reader.next]) % 2 = 1)
           => /\ reader'.yielded = reader.yielded
              /\ reader'.count = reader.count
              /\ reader'.currentRecord]_vars

\* ---------------------------------------------------------------------
\* Content conversion (HtmlSpec)
\* ---------------------------------------------------------------------

\* convertHtmlToTipTapJson has been applied to conv.html
Converted == conv.op = "convertHtmlToTipTapJson"

\* the content has no image tag
ImageFree(html) == \A i \in 1..Len(html) : html[i].k # "img"

RECURSIVE ImageNodes(_)
\* number of image nodes in a sequence of nodes, at any depth
ImageNodes(nodes) ==
    IF nodes = <<>> THEN 0
    ELSE (IF IsImageNode(Head(nodes)) THEN 1 ELSE 0)
         + (IF "type" \in DOMAIN Head(nodes) /\ "content" \in DOMAIN Head(nodes)
            THEN ImageNodes(Head(nodes).content) ELSE 0)
         + ImageNodes(Tail(nodes))

RECURSIVE RunsText(_)
\* the texts of a sequence of text runs, joined
RunsText(runs) ==
    IF runs = <<>> THEN <<>> ELSE Head(runs).text \o RunsText(Tail(runs))

\* the text of a content string: its text lexemes, a line break as "\n"
PlainText(html) == TextOf(StripTags(BrToNewline(html)))

\* C22 as stated: empty input gives null; every non-empty input without an
\* image gives a document with at least one block and no image node; content
\* in which no block-level tag is found becomes exactly one paragraph block.
C22_AsStated ==
    Converted =>
        /\ (conv.html = <<>> => conv.result = NullDoc)
        /\ (conv.html # <<>> /\ ImageFree(conv.html)
                => /\ conv.result.type = "doc"
                   /\ Len(conv.result.content) >= 1
                   /\ ImageNodes(conv.result.content) = 0)
        /\ (conv.html # <<>>
            /\ NextBlock(preprocessWordPressContent(conv.html), 1) = 0
                => /\ Len(conv.result.content) = 1
                   /\ conv.result.content[1].type = "paragraph")

\* C22 (amended): empty input gives null and every other input a document
\* root. For an input without an image the document has no image node; it has
\* at least one block when something is left of the input after the block
\* comments are removed and the rest is trimmed, and no block at all when
\* nothing is left. Content that has something left, in which no block-level
\* tag and no image is found, becomes exactly one paragraph block holding
\* its whole text.
C22_BlankOrAtLeastOneBlock ==
    Converted =>
        LET cleanHtml == preprocessWordPressContent(conv.html)
        IN /\ (conv.html = <<>> => conv.result = NullDoc)
           /\ (conv.html # <<>> => conv.result.type = "doc")
           /\ (conv.html # <<>> /\ ImageFree(conv.html)
                   => /\ ImageNodes(conv.result.content) = 0
                      /\ (cleanHtml # <<>> => Len(conv.result.content) >= 1)
                      /\ (cleanHtml = <<>> => conv.result.content = <<>>))
           /\ (cleanHtml # <<>> /\ NextBlock(cleanHtml, 1) = 0
               /\ ImageFree(cleanHtml)
                   => /\ Len(conv.result.content) = 1
                      /\ conv.result.content[1].type = "paragraph"
                      /\ RunsText(conv.result.content[1].content)
                             = PlainText(cleanHtml))

\* a non-blank content of several lexemes without block tag or image has
\* become one paragraph
C22_Witness ==
    /\ Converted
    /\ Len(conv.html) >= 3
    /\ ImageFree(conv.html)
    /\ NextBlock(preprocessWordPressContent(conv.html), 1) = 0
    /\ Len(conv.result.content) = 1
    /\ conv.result.content[1].type = "paragraph"
    /\ Len(conv.result.content[1].content) = 2

\* the marks of a text run as a set
MarkSet(run) == {run.marks[i] : i \in 1..Len(run.marks)}

\* <p><strong>Hi</strong> there</p>
HiThere ==
    Wrap("p", Wrap("strong", <<Ch("Hi")>>) \o <<Ch(" "), Ch("there")>>)

\* C23: in the inline content produced for a block no text run has empty
\* text and no two adjacent text runs have identical mark sets, and
\* <p><strong>Hi</strong> there</p> gives one paragraph of exactly two runs,
\* "Hi" with the bold mark and " there" without marks.
C23_NoEmptyRunNoEqualNeighbours ==
    /\ conv.op = "parseInlineContent"
           => /\ \A i \in 1..Len(conv.result) : conv.result[i].text # <<>>
              /\ \A i \in 1..(Len(conv.result) - 1) :
                     MarkSet(conv.result[i]) # MarkSet(conv.result[i + 1])
    /\ (Converted /\ conv.html = HiThere)
           => conv.result.content
                  = <<[type |-> "paragraph",
                       content |-> <<[text |-> <<"Hi">>, marks |-> <<"bold">>],
                                     [text |-> <<" ", "there">>,
                                      marks |-> <<>>]>>]>>

\* the content is one [caption]...[/caption] shortcode with an image tag
\* inside, with nothing but plain text before and after it
OneCaption(html) ==
    /\ NextCaption(html, 1) # 0
    /\ LET i == NextCaption(html, 1)
           j == Least({n \in (i + 1)..Len(html) : html[n] = CaptionClose})
       IN /\ NextImg(SubSeq(html, i + 1, j - 1), 1) # 0
          /\ \A n \in (1..(i - 1)) \cup ((j + 1)..Len(html)) :
                 html[n].k = "char"

\* what is between [caption ...] and [/caption]
CaptionInner(html) ==
    LET i == NextCaption(html, 1)
        j == Least({n \in (i + 1)..Len(html) : html[n] = CaptionClose})
    IN SubSeq(html, i + 1, j - 1)

\* the image nodes among the blocks of a document
ImageBlocks(nodes) == SelectSeq(nodes, IsImageNode)

IsFullyQualified(u) == StartsWith(u, "http://") \/ StartsWith(u, "https://")

\* C26: extractMediaUrls returns each referenced media URL at most once,
\* every returned URL is fully qualified (a site-relative or localhost
\* source is resolved against the base URL), the call changes no state, and
\* <img src="/wp-content/uploads/2020/x.png"> with the base URL
\* https://example.com gives exactly
\* https://example.com/wp-content/uploads/2020/x.png.
C26_UrlsOnceAndFullyQualified ==
    conv.op = "extractMediaUrls" =>
        /\ \A i, j \in 1..Len(conv.result) :
               conv.result[i] = conv.result[j] => i = j
        /\ \A i \in 1..Len(conv.result) : IsFullyQualified(conv.result[i])
        /\ \A i \in 1..Len(conv.html) :
               (conv.html[i].k = "img"
                /\ (IsRelativeUpload(conv.html[i].v)
                    \/ LocalhostDigits(conv.html[i].v) # 0))
                   => \E n \in 1..Len(conv.result) :
                          /\ StartsWith(conv.result[n], conv.base)
                          /\ EndsWith(conv.result[n], "/2020/x.png")
        /\ InitStores
        /\ (conv.html = <<Img("/wp-content/uploads/2020/x.png")>>
            /\ conv.base = "https://example.com")
               => conv.result
                      = <<"https://example.com/wp-content/uploads/2020/x.png">>

\* the same image referenced by a relative and by a localhost source has
\* been returned once, resolved against the base URL
C26_Witness ==
    /\ conv.op = "extractMediaUrls"
    /\ conv.base = "https://example.com"
    /\ Len(conv.html) = 2
    /\ conv.html[1] = Img(SrcRelative)
    /\ LocalhostDigits(conv.html[2].v) = 4
    /\ conv.result = <<"https://example.com/wp-content/uploads/2020/x.png">>

\* the src the claim gives an image: the asset path when src, or src
\* resolved against the base URL when it is site-relative, is a key of the map
ClaimedSrc(src, urlToUuidMap, base) ==
    IF src \in DOMAIN urlToUuidMap THEN "/assets/" \o urlToUuidMap[src]
    ELSE IF StartsWith(src, "/") /\ (base \o src) \in DOMAIN urlToUuidMap
    THEN "/assets/" \o urlToUuidMap[base \o src]
    ELSE src

RECURSIVE SameButSrc(_, _, _, _)
\* after is before, node by node and field by field at every depth, but for
\* the src of the image nodes, which is the claimed one
SameButSrc(before, after, urlToUuidMap, base) ==
    /\ Len(after) = Len(before)
    /\ \A i \in 1..Len(before) :
           /\ DOMAIN after[i] = DOMAIN before[i]
           /\ \A f \in DOMAIN before[i] :
                  IF f = "content"
                  THEN SameButSrc(before[i].content, after[i].content,
                                  urlToUuidMap, base)
                  ELSE IF f = "src" /\ IsImageNode(before[i])
                  THEN after[i].src
                           = ClaimedSrc(before[i].src, urlToUuidMap, base)
                  ELSE after[i][f] = before[i][f]

\* C24: replaceUrlsInTipTapJson rewrites the src of every image node, at any
\* depth, whose URL is a key of the map (as it stands, or as a site-relative
\* path resolved against the base URL) to /assets/<asset id>; an image whose
\* URL is not mapped keeps its src, and no other node, attribute or order
\* changes.
C24_MappedImagesRewrittenOnly ==
    conv.op = "replaceUrlsInTipTapJson" =>
        /\ conv.result.type = conv.doc.type
        /\ SameButSrc(conv.doc.content, conv.result.content, conv.map,
                      conv.base)

\* an image inside a blockquote has been rewritten through its relative
\* path, and an unmapped image after it has kept its src
C24_Witness ==
    /\ conv.op = "replaceUrlsInTipTapJson"
    /\ conv.base = "https://example.com"
    /\ Len(conv.doc.content) = 2
    /\ conv.doc.content[1].type = "blockquote"
    /\ conv.doc.content[1].content[1].src = SrcRelative
    /\ conv.result.content[1].content[1].src = "/assets/uuid-3"
    /\ conv.doc.content[2] = createImageNode(SrcFull, <<>>)
    /\ conv.result.content[2].src = SrcFull

\* ---------------------------------------------------------------------
\* GUI server (ServerSpec)
\* ---------------------------------------------------------------------

\* C27: the GUI server never has two migration child processes alive at the
\* same time, and the close event of an earlier child never clears the
\* running state (migrationProcess, isRunning) of a later one.
C27_AtMostOneChildAlive ==
    server.pc = "listening"
        => /\ Cardinality(server.alive) <= 1
           /\ server.cleared = NoProcess

\* ---------------------------------------------------------------------
\* Runs and rollbacks, continued (Spec)
\* ---------------------------------------------------------------------

\* C29: after any sequence of migrate runs and batch rollbacks the tracking
\* store holds at most one record with status success per (entity type,
\* old id), across all batches.
C29_OneSuccessRecordPerEntity ==
    \A r, q \in migration_data :
        (/\ r.status = "success" /\ q.status = "success"
         /\ r.table_name = q.table_name /\ r.old_id = q.old_id)
            => r.batch_id = q.batch_id

\* an entity rolled back in one batch has its one success record in a later
\* batch
C29_Witness ==
    \E r, q \in migration_data :
        /\ r.table_name = q.table_name /\ r.old_id = q.old_id
        /\ r.batch_id < q.batch_id
        /\ r.status = "rolled_back" /\ q.status = "success"

\* C30: rollback deletes only rows that the batch itself created: a post, tag
\* or collection row that was in the target store with the same id before
\* the batch started still exists, with its earlier values, after the batch
\* was migrated and then rolled back.
C30_RollbackKeepsEarlierRows ==
    [][(/\ hist'.nCommands = hist.nCommands + 1
        /\ ret'.op = "rollback"
        /\ ret'.result = "done"
        /\ ret'.startStatus = "completed"
        /\ ret'.batchId = 1)
           => \A t \in {"post", "tag", "collection"} :
                  \A row \in SeedRows[t] : row \in db'[t]]_vars

(***************************************************************************)
(* Rollback, clean and run accounting                                      *)
(***************************************************************************)
\* C31: whenever a rollback has set a batch's status to rolled_back, no
\* row of post, post_tag, tag, tag_translations, collection or
\* collection_translations named by a success record of that batch is
\* left in the target database, and the batch is not marked rolled_back
\* when the delete of a table failed.
C31_RolledBackMeansRowsGone ==
    (ret.op = "rollback" /\ ret.result = "done"
     /\ BatchRow(ret.batchId).status = "rolled_back")
        => /\ ret.errors = {}
           /\ \A t \in {"post", "post_tag", "tag", "tag_translations",
                        "collection", "collection_translations"} :
                 \A id \in ret.itemsByTable[t] :
                    ~\E r \in db[t] : r.id = id

\* C32: for every chunk size >= 1 and every stream, migrateWpPosts passes
\* each post the reader yields to migrateSingleWpPost exactly once and in
\* stream order, and the target store, the tracking store, the imported
\* files and the success/skipped/failed totals it leaves are those of the
\* same call with chunk size 1.
C32_ChunkSizeIrrelevant ==
    [][(proc.pc = "migrateWpPosts" /\ proc'.pc = "returned")
           => LET one == migrateWpPosts(LoopStart, proc.stream, 1,
                                        proc.batchId, proc.ok)
              IN /\ ret'.calls = [i \in 1..Len(proc.stream) |->
                                     proc.stream[i].ID]
                 /\ db' = one.db
                 /\ migration_data' = one.md
                 /\ directus_files' = one.files
                 /\ ret'.success = one.success
                 /\ ret'.skipped = one.skipped
                 /\ ret'.failed = one.failed]_vars

\* a call with chunk size 2 returned after a stream of three posts (a full
\* chunk and a last chunk of one post) in which a post came twice
C32_Witness ==
    /\ proc.pc = "returned"
    /\ ret.op = "migrateWpPosts"
    /\ proc.BATCH_SIZE = 2
    /\ Len(proc.stream) = 3
    /\ Len(ret.calls) = 3
    /\ ret.success >= 1
    /\ ret.skipped >= 1

\* C35: in every entity migrator, after each processed item the counters
\* satisfy success + skipped + failed = number of items processed so far.
C35_CountersAccountForEveryItem ==
    ret.op \in {"migrateWpPosts", "migrateTagTranslations"}
        => \A i \in 1..Len(ret.progress) :
              ret.progress[i].success + ret.progress[i].skipped
                  + ret.progress[i].failed = ret.progress[i].processed

C34_RunningBatchEventuallyEnds ==
    \A i \in 1..MaxCommands :
        (\E b \in migration_batch : b.id = i /\ b.status = "running")
            ~> (\E b \in migration_batch :
                   b.id = i /\ b.status \in {"completed", "failed"})

\* C36: rollbackBatch of the CLI, called for a batch that does not exist
\* or whose status is not completed (running, failed or rolled_back),
\* changes nothing: no target row is deleted and no batch or record status
\* changes; so a second rollback of a batch changes nothing after the first.
C36_CliRollbackRefusedChangesNothing ==
    [][(/\ hist'.nCommands = hist.nCommands + 1
        /\ ret'.op = "rollback"
        /\ ret'.kind = "cli"
        /\ ret'.startStatus # "completed")
           => /\ ret'.result = "refused"
              /\ UNCHANGED <<db, dbSeq, directus_files, migration_batch,
                             migration_data>>]_vars

\* the CLI was asked to roll back batch 1 a second time: the first
\* rollback marked it rolled_back, the second one was refused
C36_Witness ==
    /\ ret.op = "rollback"
    /\ ret.kind = "cli"
    /\ ret.result = "refused"
    /\ ret.batchId = 1
    /\ ret.startStatus = "rolled_back"
    /\ hist.nCommands >= 2
    /\ db.post = {}

\* C37: after cleanMigratedData returns without raising, migration_data and
\* migration_batch are empty and no post, tag or collection row whose id
\* had a success tracking record is left in the target store.
C37_CleanLeavesNoMigratedRow ==
    ret.op = "clean"
        => /\ migration_data = {}
           /\ migration_batch = {}
           /\ \A t \in {"post", "tag", "collection"} :
                 \A id \in ret.ids[t] : ~\E r \in db[t] : r.id = id

====
